---- MODULE Spec2Model ----
(***************************************************************************)
(* Verification model of the fantasy-football analyzer:                    *)
(*   - the Player Valuation Engine (sleeper_trade_analyzer.py:             *)
(*     PlayerValueAnalyzer, PerformanceTracker, ExternalADPProvider),      *)
(*   - the Identity Resolver (refresh_mappings.py: PlayerMappingRefresher).*)
(*                                                                         *)
(* Python values are tagged records: [t |-> "absent"] is a missing dict    *)
(* key, [t |-> "None"] is None/null, [t |-> "int", i |-> n] an integer,    *)
(* [t |-> "str", s |-> chars] a string held as a sequence of characters.   *)
(*                                                                         *)
(* Scores are Python floats in the source.  They are held here as exact    *)
(* rationals in units of 1/SCALE (SCALE = 2500 makes every constant of     *)
(* the pipeline an integer); binary rounding error of the floats is not    *)
(* modelled.                                                               *)
(***************************************************************************)
EXTENDS Integers, Sequences, FiniteSets, TLC

VARIABLES
    \* PlayerValueAnalyzer / PerformanceTracker / ExternalADPProvider
    league_id,            \* constructor argument: None or a league id
    players_db,           \* player id -> player record
    trending_cache,       \* player id -> signed trending score
    draft_data,           \* player id -> draft record
    matchup_data,         \* week -> matchups fetched for that week
    player_scores,        \* sequence of <<player id, history>> in insertion order
    positional_rankings,  \* ranking key -> (player id -> rank)
    adp_cache,            \* normalized name -> external ADP
    score,                \* outcome of the last calculate_player_value_score
    \* PlayerMappingRefresher
    files,                \* file name -> file state on disk
    refresher,            \* "none" | "constructed" | "aborted" | "interrupted"
    core_mappings,        \* in-memory core mapping document
    cache,                \* in-memory cache mapping document
    sleeper_players,      \* the live player pool the gateway delivers
    players_cache,        \* SleeperAPI.players_cache: None until fetched
    last,                 \* the latest operation, with what it saw and produced
    \* LeagueAnalyzer / WaiverWireAnalyzer
    gateway,              \* what the league gateway delivers: users, rosters, draft id
    display_name,         \* the configured target user (user.display_name)
    run,                  \* the analysis run of main(): calls made, fields set, outcome
    \* ESPNStatsProvider
    stats_data,           \* the statistics response handed to _process_player_stats
    processed             \* what _process_player_stats returned for it

valueVars == <<league_id, players_db, trending_cache, draft_data, matchup_data,
               player_scores, positional_rankings, adp_cache, score>>
refreshVars == <<files, refresher, core_mappings, cache, sleeper_players,
                 players_cache, last>>
resolverVars == <<files, refresher, core_mappings, cache, sleeper_players,
                  players_cache>>
leagueVars == <<gateway, display_name, run>>
statsVars == <<stats_data, processed>>
vars == <<valueVars, refreshVars, leagueVars, statsVars>>

----------------------------------------------------------------------------
(* Python values *)

Absent == [t |-> "absent"]
None == [t |-> "None"]
PyInt(n) == [t |-> "int", i |-> n]
PyStr(chars) == [t |-> "str", s |-> chars]
\* a player id: an opaque, non-empty string
PyId(id) == [t |-> "id", s |-> id]

\* dict.get(key, default): the default only replaces a missing key, not a null
Get(v, default) == IF v.t = "absent" THEN default ELSE v

\* Python truthiness of a value
Truthy(v) ==
    CASE v.t = "int" -> v.i # 0
      [] v.t = "str" -> v.s # <<>>
      [] v.t = "dict" -> TRUE
      [] v.t = "id" -> TRUE
      [] OTHER -> FALSE

Min(a, b) == IF a < b THEN a ELSE b
Max(a, b) == IF a > b THEN a ELSE b

(* Strings as character sequences *)

UpperChars == <<"A","B","C","D","E","F","G","H","I","J","K","L","M",
                "N","O","P","Q","R","S","T","U","V","W","X","Y","Z">>
LowerChars == <<"a","b","c","d","e","f","g","h","i","j","k","l","m",
                "n","o","p","q","r","s","t","u","v","w","x","y","z">>

LowerChar(c) ==
    IF \E k \in 1..Len(UpperChars) : UpperChars[k] = c
    THEN LowerChars[CHOOSE k \in 1..Len(UpperChars) : UpperChars[k] = c]
    ELSE c

\* str.lower()
Lower(s) == [k \in 1..Len(s) |-> LowerChar(s[k])]

\* needle in haystack (substring test)
Contains(haystack, needle) ==
    \E k \in 0..(Len(haystack) - Len(needle)) :
        \A j \in 1..Len(needle) : haystack[k + j] = needle[j]

\* str.replace(old, '') / str.replace(old, new) for a single character
RECURSIVE ReplaceChar(_, _, _)
ReplaceChar(s, old, new) ==
    IF s = <<>> THEN <<>>
    ELSE (IF Head(s) = old THEN new ELSE <<Head(s)>>) \o ReplaceChar(Tail(s), old, new)

RECURSIVE LStrip(_)
LStrip(s) == IF s # <<>> /\ Head(s) = " " THEN LStrip(Tail(s)) ELSE s

RECURSIVE RStrip(_)
RStrip(s) ==
    IF s # <<>> /\ s[Len(s)] = " " THEN RStrip(SubSeq(s, 1, Len(s) - 1)) ELSE s

\* str.strip()
Strip(s) == LStrip(RStrip(s))

\* f"{x}" of a name part: None is formatted as the text None
Format(v) ==
    CASE v.t = "str" -> v.s
      [] v.t = "None" -> <<"N","o","n","e">>
      [] OTHER -> <<>>

\* f"{first_name} {last_name}".strip() with .get(key, '') on both parts
FullName(info) ==
    Strip(Format(Get(info.first_name, PyStr(<<>>))) \o <<" ">>
          \o Format(Get(info.last_name, PyStr(<<>>))))

----------------------------------------------------------------------------
(* ExternalADPProvider *)

EmptyDict == <<>>

\* dict lookup with None for a missing key
Lookup(d, k) == IF k \in DOMAIN d THEN d[k] ELSE None

\* the static reference table of load_external_adp_data, as <<key, adp>> pairs
mock_adp_data == <<
    <<<<"c","h","r","i","s","t","i","a","n","_","m","c","c","a","f","f","r","e","y">>, 1>>,
    <<<<"a","u","s","t","i","n","_","e","k","e","l","e","r">>, 65>>,
    <<<<"s","a","q","u","o","n","_","b","a","r","k","l","e","y">>, 4>>,
    <<<<"j","a","m","a","r","r","_","c","h","a","s","e">>, 2>>,
    <<<<"c","e","e","d","e","e","_","l","a","m","b">>, 6>>,
    <<<<"p","u","k","a","_","n","a","c","u","a">>, 12>>,
    <<<<"j","o","s","h","_","a","l","l","e","n">>, 22>>,
    <<<<"l","a","m","a","r","_","j","a","c","k","s","o","n">>, 28>>,
    <<<<"j","a","l","e","n","_","h","u","r","t","s">>, 34>>,
    <<<<"t","r","a","v","i","s","_","k","e","l","c","e">>, 18>>,
    <<<<"m","a","r","k","_","a","n","d","r","e","w","s">>, 45>>,
    <<<<"g","e","o","r","g","e","_","k","i","t","t","l","e">>, 35>>,
    <<<<"d","a","v","a","n","t","e","_","a","d","a","m","s">>, 42>>,
    <<<<"g","a","r","r","e","t","t","_","w","i","l","s","o","n">>, 38>>,
    <<<<"m","i","k","e","_","e","v","a","n","s">>, 55>>,
    <<<<"d","e","r","r","i","c","k","_","h","e","n","r","y">>, 48>>,
    <<<<"j","o","n","a","t","h","a","n","_","t","a","y","l","o","r">>, 20>>,
    <<<<"b","r","e","e","c","e","_","h","a","l","l">>, 30>>,
    <<<<"t","y","r","e","e","k","_","h","i","l","l">>, 25>>,
    <<<<"a","m","o","n","_","r","a","_","s","t","_","b","r","o","w","n">>, 32>>,
    <<<<"d","r","a","k","e","_","l","o","n","d","o","n">>, 68>>,
    <<<<"h","u","n","t","e","r","_","h","e","n","r","y">>, 145>>,
    <<<<"c","h","a","s","e","_","m","c","l","a","u","g","h","l","i","n">>, 180>>,
    <<<<"d","e","t","r","o","i","t","_","l","i","o","n","s">>, 165>>
>>

load_external_adp_data ==
    [k \in {mock_adp_data[n][1] : n \in 1..Len(mock_adp_data)} |->
        PyInt(mock_adp_data[CHOOSE n \in 1..Len(mock_adp_data) : mock_adp_data[n][1] = k][2])]

\* player_name.lower().replace(' ', '_').replace('.', '').replace("'", '')
NormalizeName(player_name) ==
    ReplaceChar(ReplaceChar(ReplaceChar(Lower(player_name), " ", <<"_">>), ".", <<>>),
                "'", <<>>)

get_external_adp(cache_, player_name) == Lookup(cache_, NormalizeName(player_name))

----------------------------------------------------------------------------
(* PerformanceTracker *)

PosQB == <<"Q","B">>
PosRB == <<"R","B">>
PosWR == <<"W","R">>
PosTE == <<"T","E">>
PosK == <<"K">>
PosDef == <<"D","E","F">>
PosAll == <<"A","L","L">>
PosUnknown == <<"U","N","K","N","O","W","N">>

\* position_weights, in hundredths; .get(position, 0.15)
PositionWeight(position) ==
    IF position.t # "str" THEN 15
    ELSE CASE position.s = PosQB -> 20
           [] position.s = PosRB -> 30
           [] position.s = PosWR -> 25
           [] position.s = PosTE -> 15
           [] position.s = PosDef -> 5
           [] position.s = PosK -> 5
           [] OTHER -> 15

\* position_multipliers, in hundredths; .get(position, 0.15)
PositionMultiplier(position) ==
    IF position.t # "str" THEN 15
    ELSE CASE position.s = PosQB -> 8
           [] position.s = PosRB -> 25
           [] position.s = PosWR -> 35
           [] position.s = PosTE -> 8
           [] position.s = PosDef -> 8
           [] position.s = PosK -> 8
           [] OTHER -> 15

\* The double nearest 0.35 lies below 0.35, and for these ADP values (all those
\* below 1000) the float product adp * 0.35 lands just under the integer that
\* the exact product equals, so int() yields one less.
FloatShortfall(adp, m) == IF m = 35 /\ adp \in {180, 340, 360, 660, 680, 700, 720} THEN 1 ELSE 0

\* int(x) for x = n / 100: truncation toward zero
IntTrunc100(n) == IF n >= 0 THEN n \div 100 ELSE -((-n) \div 100)

\* int(adp * multiplier), without the floor of 1
calculate_expected_rank_from_adp_NoFloor(adp, position) ==
    LET m == PositionMultiplier(position)
    IN IntTrunc100(adp * m) - FloatShortfall(adp, m)

\* max(1, int(adp * multiplier))
calculate_expected_rank_from_adp(adp, position) ==
    LET m == PositionMultiplier(position)
    IN Max(1, IntTrunc100(adp * m) - FloatShortfall(adp, m))

\* a lookup that answers rank 99 for a player the table does not hold
get_player_performance_rank_Default99(rankings, player_id, position) ==
    IF position.t = "str" /\ position.s \in DOMAIN rankings
       /\ player_id \in DOMAIN rankings[position.s]
    THEN rankings[position.s][player_id]
    ELSE PyInt(99)

\* positional_rankings.get(position, {}).get(player_id)
get_player_performance_rank(rankings, player_id, position) ==
    IF position.t = "str" /\ position.s \in DOMAIN rankings
    THEN Lookup(rankings[position.s], player_id)
    ELSE None

\* scores are held in units of 1/SCALE
SCALE == 25 * 100

\* The 'modifier' entry of calculate_performance_modifier's result, in 1/SCALE.
calculate_performance_modifier(rankings, player_id, position, league_adp, external_adp) ==
    LET current_rank == get_player_performance_rank(rankings, player_id, position)
        expected_rank_league ==
            IF Truthy(league_adp) /\ league_adp.i < 999
            THEN PyInt(calculate_expected_rank_from_adp(league_adp.i, position))
            ELSE None
        expected_rank_external ==
            IF Truthy(external_adp)
            THEN PyInt(calculate_expected_rank_from_adp(external_adp.i, position))
            ELSE None
        expected_rank ==
            IF Truthy(expected_rank_league) /\ Truthy(expected_rank_external)
            THEN PyInt(Max(expected_rank_league.i, expected_rank_external.i))
            ELSE IF Truthy(expected_rank_league) THEN expected_rank_league
            ELSE IF Truthy(expected_rank_external) THEN expected_rank_external
            ELSE None
    IN  IF ~Truthy(current_rank) THEN 0
        ELSE IF ~Truthy(expected_rank) THEN 0
        ELSE LET rank_differential == expected_rank.i - current_rank.i
                 \* rank_differential * position_weight * 2
                 raw_modifier == rank_differential * PositionWeight(position) * 2 * (SCALE \div 100)
             IN Max(-15 * SCALE, Min(15 * SCALE, raw_modifier))

----------------------------------------------------------------------------
(* PlayerValueAnalyzer *)

\* players_db.get(player_id, {}): an unknown id gives the empty record
EmptyInfo ==
    [search_rank |-> Absent, depth_chart_position |-> Absent, injury_status |-> Absent,
     position |-> Absent, first_name |-> Absent, last_name |-> Absent, team |-> Absent]

PlayerInfo(db, player_id) == IF player_id \in DOMAIN db THEN db[player_id] ELSE EmptyInfo

\* draft_data.get(player_id)
DraftInfo(dd, player_id) == Lookup(dd, player_id)

\* A Python operation that raises TypeError on a non-numeric operand
IsNum(v) == v.t = "int"

\* the second tier reaches one round further
get_draft_tier_Tier2ToRound7(draft_info) ==
    IF ~Truthy(draft_info) THEN 3
    ELSE LET round_num == Get(draft_info.round, PyInt(99))
         IN IF ~IsNum(round_num) THEN 0
            ELSE IF round_num.i <= 3 THEN 1
            ELSE IF round_num.i <= 7 THEN 2
            ELSE 3

\* get_draft_tier: 0 stands for "raised" (round_num <= 3 on a non-number)
get_draft_tier(draft_info) ==
    IF ~Truthy(draft_info) THEN 3
    ELSE LET round_num == Get(draft_info.round, PyInt(99))
         IN IF ~IsNum(round_num) THEN 0
            ELSE IF round_num.i <= 3 THEN 1
            ELSE IF round_num.i <= 6 THEN 2
            ELSE 3

\* tier_multipliers, in tenths
TierMultiplier(tier) == CASE tier = 1 -> 13 [] tier = 2 -> 10 [] OTHER -> 7

\* the base score without the tier multiplier
BaseScore_NoTierMultiplier(search_rank, tier) ==
    IF search_rank = 9999 THEN 0
    ELSE Max(0, 1000 - search_rank) * 2 * (SCALE \div 25)

\* max(0, 1000 - search_rank) / 12.5 * tier multiplier; 0 for the 9999 sentinel
BaseScore(search_rank, tier) ==
    LET unscaled == IF search_rank = 9999 THEN 0
                    ELSE Max(0, 1000 - search_rank) * 2 * (SCALE \div 25)
    IN (unscaled * TierMultiplier(tier)) \div 10

\* tier_depth_multipliers, in tenths
TierDepthMultiplier(tier) == CASE tier = 1 -> 15 [] tier = 2 -> 12 [] OTHER -> 10

\* DepthBonus with the bonuses of slot 1 and slot 2 both 10
DepthBonus_Slot1As10(depth_pos, tier) ==
    IF IsNum(depth_pos) /\ depth_pos.i # 99
    THEN LET multiplier == TierDepthMultiplier(tier)
         IN IF depth_pos.i = 1 THEN (10 * SCALE * multiplier) \div 10
            ELSE IF depth_pos.i = 2 THEN (10 * SCALE * multiplier) \div 10
            ELSE IF depth_pos.i <= 3 THEN (5 * SCALE * multiplier) \div 10
            ELSE 0
    ELSE 0

DepthBonus(depth_pos, tier) ==
    IF IsNum(depth_pos) /\ depth_pos.i # 99
    THEN LET multiplier == TierDepthMultiplier(tier)
         IN IF depth_pos.i = 1 THEN (20 * SCALE * multiplier) \div 10
            ELSE IF depth_pos.i = 2 THEN (10 * SCALE * multiplier) \div 10
            ELSE IF depth_pos.i <= 3 THEN (5 * SCALE * multiplier) \div 10
            ELSE 0
    ELSE 0

\* tier_trending_multipliers, in tenths
TierTrendingMultiplier(tier) == CASE tier = 1 -> 13 [] tier = 2 -> 11 [] OTHER -> 9

\* the clamp applied after the tier scaling
TrendingBonus_ScaleBeforeClamp(trending_score, tier) ==
    Min(20 * SCALE,
        Max(-20 * SCALE,
            (trending_score * (SCALE \div 5) * TierTrendingMultiplier(tier)) \div 10))

\* min(20, max(-20, trending_score / 5)) * trending_multiplier
TrendingBonus(trending_score, tier) ==
    (Min(20 * SCALE, Max(-20 * SCALE, trending_score * (SCALE \div 5)))
        * TierTrendingMultiplier(tier)) \div 10

InjuryPenalty(injury_status) ==
    IF Truthy(injury_status) /\ injury_status.t = "str"
    THEN LET injury_status_lower == Lower(injury_status.s)
         IN IF Contains(injury_status_lower, <<"o","u","t">>)
               \/ Contains(injury_status_lower, <<"i","r">>) THEN -30 * SCALE
            ELSE IF Contains(injury_status_lower, <<"d","o","u","b","t","f","u","l">>)
                 THEN -15 * SCALE
            ELSE IF Contains(injury_status_lower,
                             <<"q","u","e","s","t","i","o","n","a","b","l","e">>)
                 THEN -5 * SCALE
            ELSE 0
    ELSE 0

DraftBonus(draft_info, tier, base_score) ==
    IF ~Truthy(draft_info) THEN 0
    ELSE IF tier = 1
         THEN (IF base_score >= 60 * SCALE THEN 12 * SCALE
               ELSE IF base_score >= 45 * SCALE THEN 6 * SCALE
               ELSE IF base_score < 30 * SCALE THEN -5 * SCALE
               ELSE 0)
    ELSE IF tier = 2
         THEN (IF base_score >= 50 * SCALE THEN 8 * SCALE
               ELSE IF base_score < 25 * SCALE THEN -5 * SCALE
               ELSE 0)
    ELSE (IF base_score >= 40 * SCALE THEN 8 * SCALE
          ELSE IF base_score < 20 * SCALE THEN -3 * SCALE
          ELSE 0)

\* the tier-based caps on the raw performance modifier
TierPerformanceCap(tier, raw_performance_modifier) ==
    IF tier = 1 THEN Max(-12 * SCALE, Min(18 * SCALE, raw_performance_modifier))
    ELSE IF tier = 2 THEN Max(-10 * SCALE, Min(12 * SCALE, raw_performance_modifier))
    ELSE Max(-8 * SCALE, Min(10 * SCALE, raw_performance_modifier))

PerformanceModifier(has_tracker, rankings, adp, player_id, player_info, draft_info,
                    position, tier) ==
    IF ~has_tracker THEN 0
    ELSE LET player_name == FullName(player_info)
             league_adp == IF Truthy(draft_info)
                           THEN Get(draft_info.pick_no, None) ELSE None
             external_adp == IF player_name # <<>>
                             THEN get_external_adp(adp, player_name) ELSE None
         IN TierPerformanceCap(tier,
                calculate_performance_modifier(rankings, player_id, position,
                                               league_adp, external_adp))

\* position_bonuses.get(position, 0), Tier 1 only
PositionBonus(position, tier) ==
    IF tier # 1 \/ position.t # "str" THEN 0
    ELSE CASE position.s = PosRB -> 4 * SCALE
           [] position.s = PosQB -> 2 * SCALE
           [] position.s = PosTE -> 3 * SCALE
           [] position.s = PosWR -> 0
           [] position.s = PosK -> -2 * SCALE
           [] position.s = PosDef -> -2 * SCALE
           [] OTHER -> 0

\* ApplyTierBounds with the Tier 1 floor left out
ApplyTierBounds_NoTier1Floor(tier, total) ==
    LET bounded ==
            IF tier = 1 THEN total
            ELSE IF tier = 2
                 THEN LET floored == Max(total, 65 * SCALE)
                      IN IF floored > 95 * SCALE
                         THEN 95 * SCALE + ((floored - 95 * SCALE) * 3) \div 10
                         ELSE floored
            ELSE Min(total, 85 * SCALE)
    IN Max(0, bounded)

\* ApplyTierBounds with the Tier 3 cap applied as a floor (max for min)
ApplyTierBounds_Tier3MaxForMin(tier, total) ==
    LET bounded ==
            IF tier = 1 THEN Max(total, 85 * SCALE)
            ELSE IF tier = 2
                 THEN LET floored == Max(total, 65 * SCALE)
                      IN IF floored > 95 * SCALE
                         THEN 95 * SCALE + ((floored - 95 * SCALE) * 3) \div 10
                         ELSE floored
            ELSE Max(total, 85 * SCALE)
    IN Max(0, bounded)

\* ApplyTierBounds with a hard cap of 95 for Tier 2
ApplyTierBounds_Tier2HardCap(tier, total) ==
    LET bounded ==
            IF tier = 1 THEN Max(total, 85 * SCALE)
            ELSE IF tier = 2 THEN Min(Max(total, 65 * SCALE), 95 * SCALE)
            ELSE Min(total, 85 * SCALE)
    IN Max(0, bounded)

\* the tier-based floor and cap, then max(0, total_score)
ApplyTierBounds(tier, total) ==
    LET bounded ==
            IF tier = 1 THEN Max(total, 85 * SCALE)
            ELSE IF tier = 2
                 THEN LET floored == Max(total, 65 * SCALE)
                      IN IF floored > 95 * SCALE
                         THEN 95 * SCALE + ((floored - 95 * SCALE) * 3) \div 10
                         ELSE floored
            ELSE Min(total, 85 * SCALE)
    IN Max(0, bounded)

\* sum of the seven contributions
TotalScore(has_tracker, db, tc, dd, rankings, adp, player_id, tier) ==
    LET player_info == PlayerInfo(db, player_id)
        draft_info == DraftInfo(dd, player_id)
        position == Get(player_info.position, PyStr(PosUnknown))
        search_rank == Get(player_info.search_rank, PyInt(9999))
        depth_pos == Get(player_info.depth_chart_position, PyInt(99))
        trending_score == IF player_id \in DOMAIN tc THEN tc[player_id] ELSE 0
        injury_status == Get(player_info.injury_status, PyStr(<<>>))
        base_score == BaseScore(search_rank.i, tier)
    IN  base_score
        + DepthBonus(depth_pos, tier)
        + TrendingBonus(trending_score, tier)
        + InjuryPenalty(injury_status)
        + DraftBonus(draft_info, tier, base_score)
        + PerformanceModifier(has_tracker, rankings, adp, player_id, player_info,
                              draft_info, position, tier)
        + PositionBonus(position, tier)

\* calculate_player_value_score: [raised |-> TRUE] stands for an exception
\* leaving the call (TypeError from arithmetic or comparison on None).
calculate_player_value_score(has_tracker, db, tc, dd, rankings, adp, player_id) ==
    LET player_info == PlayerInfo(db, player_id)
        tier == get_draft_tier(DraftInfo(dd, player_id))
        search_rank == Get(player_info.search_rank, PyInt(9999))
    IN  IF tier = 0 THEN [raised |-> TRUE, value |-> 0]
        ELSE IF ~IsNum(search_rank) THEN [raised |-> TRUE, value |-> 0]
        ELSE [raised |-> FALSE,
              value |-> ApplyTierBounds(tier,
                            TotalScore(has_tracker, db, tc, dd, rankings, adp,
                                       player_id, tier))]

----------------------------------------------------------------------------
(* Loading: trending, draft and performance data *)

\* for player in trending_adds: trending_cache[player_id] = count
RECURSIVE ApplyAdds(_, _)
ApplyAdds(tc, feed) ==
    IF feed = <<>> THEN tc
    ELSE LET e == Head(feed)
         IN ApplyAdds([k \in DOMAIN tc \cup {e.player_id} |->
                          IF k = e.player_id THEN e.count ELSE tc[k]], Tail(feed))

\* for player in trending_drops: trending_cache[player_id] = current - count
RECURSIVE ApplyDrops(_, _)
ApplyDrops(tc, feed) ==
    IF feed = <<>> THEN tc
    ELSE LET e == Head(feed)
             current_score == IF e.player_id \in DOMAIN tc THEN tc[e.player_id] ELSE 0
         IN ApplyDrops([k \in DOMAIN tc \cup {e.player_id} |->
                           IF k = e.player_id THEN current_score - e.count ELSE tc[k]],
                       Tail(feed))

\* for pick in draft_picks: if player_id: draft_data[player_id] = {...}
RECURSIVE ApplyPicks(_, _)
ApplyPicks(dd, picks) ==
    IF picks = <<>> THEN dd
    ELSE LET pick == Head(picks)
             player_id == Get(pick.player_id, None)
         IN IF ~Truthy(player_id) THEN ApplyPicks(dd, Tail(picks))
            ELSE ApplyPicks(
                   [k \in DOMAIN dd \cup {player_id.s} |->
                      IF k = player_id.s
                      THEN [t |-> "dict",
                            pick_no |-> Get(pick.pick_no, PyInt(999)),
                            round |-> Get(pick.round, PyInt(99)),
                            draft_slot |-> Get(pick.draft_slot, PyInt(99))]
                      ELSE dd[k]],
                   Tail(picks))

\* player_scores[player_id].append({'week': week, 'points': points})
AppendScore(ps, player_id, sample) ==
    IF \E n \in 1..Len(ps) : ps[n].id = player_id
    THEN [n \in 1..Len(ps) |->
            IF ps[n].id = player_id
            THEN [id |-> player_id, scores |-> Append(ps[n].scores, sample)]
            ELSE ps[n]]
    ELSE Append(ps, [id |-> player_id, scores |-> <<sample>>])

\* for player_id, points in matchup['players_points'].items(): append
RECURSIVE AppendPoints(_, _, _)
AppendPoints(ps, week, points) ==
    IF points = <<>> THEN ps
    ELSE AppendPoints(AppendScore(ps, Head(points)[1],
                                  [week |-> week, points |-> Head(points)[2]]),
                      week, Tail(points))

\* for matchup in matchups: if 'players_points' in matchup: ...
RECURSIVE ExtractWeek(_, _, _)
ExtractWeek(ps, week, matchups) ==
    IF matchups = <<>> THEN ps
    ELSE LET matchup == Head(matchups)
         IN ExtractWeek(IF matchup.players_points.t = "absent" THEN ps
                        ELSE AppendPoints(ps, week, matchup.players_points.items),
                        week, Tail(matchups))

RECURSIVE SumPoints(_)
SumPoints(scores) == IF scores = <<>> THEN 0 ELSE Head(scores).points + SumPoints(Tail(scores))

\* the list position_totals['ALL']: players with total_points > 0, in dict order
PositionTotals(ps) ==
    SelectSeq([n \in 1..Len(ps) |-> [id |-> ps[n].id, total |-> SumPoints(ps[n].scores)]],
              LAMBDA e : e.total > 0)

\* 1-based index of entry n after players.sort(key=total, reverse=True) (stable)
SortedIndex(players, n) ==
    1 + Cardinality({m \in 1..Len(players) : players[m].total > players[n].total})
      + Cardinality({m \in 1..(n - 1) : players[m].total = players[n].total})

\* _calculate_positional_rankings: only the key 'ALL' is ever written, and only
\* when some player has a positive total
_calculate_positional_rankings(rankings, ps) ==
    LET players == PositionTotals(ps)
    IN IF players = <<>> THEN rankings
       ELSE [key \in DOMAIN rankings \cup {PosAll} |->
               IF key = PosAll
               THEN [id \in {players[n].id : n \in 1..Len(players)} |->
                       PyInt(SortedIndex(players,
                                 CHOOSE n \in 1..Len(players) : players[n].id = id))]
               ELSE rankings[key]]

\* the week loop of PerformanceTracker.load_performance_data: outcome[w] is
\* either Fail (the fetch raised) or Ok(the list of matchups of week w)
Fail == [t |-> "raise"]
Ok(matchups) == [t |-> "ok", matchups |-> matchups]

\* a week loop that ends at the first week whose fetch raises
RECURSIVE LoadWeeks_StopAtFailure(_, _, _, _)
LoadWeeks_StopAtFailure(st, week, last_week, outcome) ==
    IF week > last_week \/ outcome[week].t = "raise" THEN st
    ELSE LoadWeeks_StopAtFailure(
           [matchup_data |-> [w \in DOMAIN st.matchup_data \cup {week} |->
                                 IF w = week THEN outcome[week].matchups
                                 ELSE st.matchup_data[w]],
            player_scores |-> ExtractWeek(st.player_scores, week,
                                          outcome[week].matchups)],
           week + 1, last_week, outcome)

RECURSIVE LoadWeeks(_, _, _, _)
LoadWeeks(st, week, last_week, outcome) ==
    IF week > last_week THEN st
    ELSE LoadWeeks(
           IF outcome[week].t = "raise" THEN st
           ELSE [matchup_data |-> [w \in DOMAIN st.matchup_data \cup {week} |->
                                      IF w = week THEN outcome[week].matchups
                                      ELSE st.matchup_data[w]],
                 player_scores |-> ExtractWeek(st.player_scores, week,
                                               outcome[week].matchups)],
           week + 1, last_week, outcome)

----------------------------------------------------------------------------
(* Inputs of the valuation engine *)

Chars(s) == PyStr(s)

\* player records of the gateway's player database: every combination of the
\* main values of the four scored signals, and records with null, non-numeric
\* or named fields
SearchRanks == {Absent, PyInt(50), PyInt(500), PyInt(700)}
DepthSlots == {Absent, PyInt(1), PyInt(2), PyInt(3)}
InjuryStatuses == {Absent, Chars(<<"O","u","t">>),
                   Chars(<<"Q","u","e","s","t","i","o","n","a","b","l","e">>)}
Positions == {Chars(PosRB), Chars(PosK)}

Hunter == Chars(<<"H","u","n","t","e","r">>)
Henry == Chars(<<"H","e","n","r","y">>)

SignalRecords ==
    {[EmptyInfo EXCEPT !.search_rank = sr, !.depth_chart_position = dp,
                       !.injury_status = inj, !.position = pos] :
        sr \in SearchRanks, dp \in DepthSlots, inj \in InjuryStatuses, pos \in Positions}

SpecialRecords ==
    {EmptyInfo,
     [EmptyInfo EXCEPT !.search_rank = None],
     [EmptyInfo EXCEPT !.search_rank = PyInt(9999), !.position = Chars(PosQB),
                       !.depth_chart_position = PyInt(0)],
     [EmptyInfo EXCEPT !.search_rank = PyInt(1200), !.position = Chars(PosWR),
                       !.depth_chart_position = PyInt(4),
                       !.injury_status = Chars(<<"D","o","u","b","t","f","u","l">>)],
     [EmptyInfo EXCEPT !.search_rank = PyInt(50), !.depth_chart_position = None,
                       !.injury_status = None, !.position = None,
                       !.first_name = None, !.last_name = None],
     [EmptyInfo EXCEPT !.search_rank = PyInt(50), !.depth_chart_position = Chars(PosRB),
                       !.injury_status = Chars(<<"I","R">>), !.position = Chars(PosTE)],
     [EmptyInfo EXCEPT !.search_rank = PyInt(500), !.position = Chars(PosDef),
                       !.depth_chart_position = PyInt(99)]}

\* records whose position is the ranking key the tracker writes, so that the
\* performance rank of the player is found
RankedRecords ==
    {[EmptyInfo EXCEPT !.search_rank = sr, !.position = Chars(PosAll),
                       !.first_name = fn, !.last_name = Henry] :
        sr \in {PyInt(50), PyInt(700)}, fn \in {Absent, Hunter}}

PlayerRecords == SignalRecords \cup SpecialRecords \cup RankedRecords

PlayerIds == {"p1", "p2"}

\* feeds of get_trending_players: lists of {player_id, count}
AddFeeds == {<<>>, <<[player_id |-> "p1", count |-> 40]>>,
             <<[player_id |-> "p1", count |-> 150]>>}
DropFeeds == {<<>>, <<[player_id |-> "p1", count |-> 90]>>}

\* the trending cache is kept within +/- MaxTrending by the load guard
MaxTrending == 150

\* picks of get_draft_picks
Pick(pid, pick_no, round) ==
    [player_id |-> pid, pick_no |-> pick_no, round |-> round, draft_slot |-> Absent]

DraftFeeds ==
    {<<>>,
     <<Pick(PyId("p1"), PyInt(30), PyInt(3))>>,
     <<Pick(PyId("p1"), PyInt(40), PyInt(4))>>,
     <<Pick(PyId("p1"), PyInt(70), PyInt(6))>>,
     <<Pick(PyId("p1"), PyInt(170), PyInt(7))>>,
     <<Pick(PyId("p1"), None, None)>>,
     <<Pick(PyId("p1"), Absent, Absent)>>,
     <<Pick(None, PyInt(1), PyInt(1)), Pick(PyId("p1"), PyInt(2), PyInt(1))>>}

\* the weeks load_performance_data fetches: range(1, min(current_week + 1, 16))
current_week == 2
LastWeek == Min(current_week + 1, 16) - 1

Points(items) == [players_points |-> [t |-> "dict", items |-> items]]

WeekOutcomes ==
    {Fail,
     Ok(<<[players_points |-> Absent], Points(<<<<"p2", 10>>, <<"p1", 10>>>>)>>)}

\* the outcomes explored for the tracker on its own: also a week in which the
\* player stored second outscores the first and a player scores nothing
TrackerOutcomes ==
    WeekOutcomes \cup {Ok(<<Points(<<<<"p1", 17>>>>), Points(<<<<"p3", 0>>>>)>>)}

\* histories are kept within MaxSamples samples by the load guard
MaxSamples == 2

----------------------------------------------------------------------------
(* The valuation engine as a state machine *)

NoScore == [t |-> "none"]

\* last when the latest operation left nothing to record
NoOp == [op |-> "none"]

\* no analysis run takes place
NoRun == [analyzer |-> "none"]
LeagueIdle ==
    /\ gateway = EmptyDict
    /\ display_name = None
    /\ run = NoRun

\* no statistics response has been processed
StatsIdle ==
    /\ stats_data = None
    /\ processed = None

\* the refresher takes no part in the valuation engine's runs
RefreshIdle ==
    /\ files = EmptyDict
    /\ refresher = "none"
    /\ core_mappings = EmptyDict
    /\ cache = EmptyDict
    /\ sleeper_players = <<>>
    /\ players_cache = None
    /\ last = [op |-> "none"]

\* PlayerValueAnalyzer(api, players_db, league_id): without a league id there
\* is no performance tracker and no ADP provider.  The full signal product is
\* explored without a tracker, the ranked records with one.
Configurations ==
    {<<None, rec>> : rec \in SignalRecords \cup SpecialRecords}
    \cup {<<PyId("L1"), rec>> : rec \in RankedRecords \cup SpecialRecords}

InitValue ==
    /\ \E cfg \in Configurations :
          /\ league_id = cfg[1]
          /\ players_db = [id \in {"p1"} |-> cfg[2]]
    /\ trending_cache = EmptyDict
    /\ draft_data = EmptyDict
    /\ matchup_data = EmptyDict
    /\ player_scores = <<>>
    /\ positional_rankings = EmptyDict
    /\ adp_cache = EmptyDict
    /\ score = NoScore
    /\ RefreshIdle
    /\ LeagueIdle
    /\ StatsIdle

HasTracker == Truthy(league_id)

\* load_trending_data: both feeds are fetched before the cache is touched; a
\* failed fetch leaves the cache as it was
load_trending_data(tc, fetch) ==
    IF fetch.t = "raise" THEN tc
    ELSE ApplyDrops(ApplyAdds(tc, fetch.adds), fetch.drops)

TrendingFetches ==
    {Fail} \cup {[t |-> "ok", adds |-> a, drops |-> d] : a \in AddFeeds, d \in DropFeeds}

\* the feeds of every successful load on this analyzer so far, when they were
\* the same feeds each time
NoFeeds == [t |-> "none"]
MixedFeeds == [t |-> "mixed"]
FeedsSoFar(l, fetch) ==
    LET prev == IF l.op = "load_trending" THEN l.feeds ELSE NoFeeds
    IN IF fetch.t = "raise" THEN prev
       ELSE IF prev = NoFeeds \/ prev = fetch THEN fetch
       ELSE MixedFeeds

\* load_trending_data() with the feeds drawn from fetches; traced records the
\* call in last
LoadTrendingData(fetches, traced) ==
    /\ \E fetch \in fetches :
          LET tc == load_trending_data(trending_cache, fetch)
          IN /\ \A id \in DOMAIN tc : tc[id] >= -MaxTrending /\ tc[id] <= MaxTrending
             /\ trending_cache' = tc
             /\ last' = IF traced
                        THEN [op |-> "load_trending", fetch |-> fetch,
                              before |-> trending_cache,
                              feeds |-> FeedsSoFar(last, fetch)]
                        ELSE NoOp
    /\ score' = NoScore
    /\ UNCHANGED <<league_id, players_db, draft_data, matchup_data, player_scores,
                   positional_rankings, adp_cache, resolverVars, leagueVars, statsVars>>

\* load_draft_data
load_draft_data(dd, fetch) ==
    IF fetch.t = "raise" THEN dd ELSE ApplyPicks(dd, fetch.picks)

LoadDraftData ==
    /\ \E fetch \in {Fail} \cup {[t |-> "ok", picks |-> f] : f \in DraftFeeds} :
          draft_data' = load_draft_data(draft_data, fetch)
    /\ score' = NoScore
    /\ last' = NoOp
    /\ UNCHANGED <<league_id, players_db, trending_cache, matchup_data, player_scores,
                   positional_rankings, adp_cache, resolverVars, leagueVars, statsVars>>

\* PerformanceTracker.load_performance_data: a failed settings fetch abandons
\* the load; otherwise every week is fetched and the rankings are recomputed
TrackerLoad(st, settings_ok, outcome) ==
    IF ~settings_ok THEN st
    ELSE LET loaded == LoadWeeks([matchup_data |-> st.matchup_data,
                                  player_scores |-> st.player_scores],
                                 1, LastWeek, outcome)
         IN [matchup_data |-> loaded.matchup_data,
             player_scores |-> loaded.player_scores,
             positional_rankings |->
                 _calculate_positional_rankings(st.positional_rankings,
                                                loaded.player_scores)]

\* PlayerValueAnalyzer.load_performance_data
LoadPerformanceData(outcomes) ==
    /\ \E settings_ok \in BOOLEAN, outcome \in [1..LastWeek -> outcomes] :
          LET st == [matchup_data |-> matchup_data, player_scores |-> player_scores,
                     positional_rankings |-> positional_rankings]
              new == IF HasTracker THEN TrackerLoad(st, settings_ok, outcome) ELSE st
          IN /\ \A n \in 1..Len(new.player_scores) :
                    Len(new.player_scores[n].scores) <= MaxSamples
             /\ matchup_data' = new.matchup_data
             /\ player_scores' = new.player_scores
             /\ positional_rankings' = new.positional_rankings
             /\ last' = IF HasTracker
                        THEN [op |-> "load_performance", settings_ok |-> settings_ok,
                              outcome |-> outcome, before |-> st]
                        ELSE NoOp
    /\ adp_cache' = IF HasTracker THEN load_external_adp_data ELSE adp_cache
    /\ score' = NoScore
    /\ UNCHANGED <<league_id, players_db, trending_cache, draft_data, resolverVars, leagueVars, statsVars>>

\* a lookup that stores the default under a missing key (dict.setdefault)
TrendingCacheAfterGet_SetDefault(tc, player_id) ==
    [k \in DOMAIN tc \cup {player_id} |-> IF k \in DOMAIN tc THEN tc[k] ELSE 0]

\* the trending cache after self.trending_cache.get(player_id, 0): a plain
\* dict, so the lookup adds no key
TrendingCacheAfterGet(tc, player_id) == tc

\* calculate_player_value_score(player_id): every structure is read with
\* .get(); the call assigns no attribute
CalculatePlayerValueScore ==
    /\ \E player_id \in PlayerIds :
          LET r == calculate_player_value_score(HasTracker, players_db, trending_cache,
                       draft_data, positional_rankings, adp_cache, player_id)
          IN /\ score' = [t |-> "result", player_id |-> player_id,
                          raised |-> r.raised, value |-> r.value]
             /\ trending_cache' = TrendingCacheAfterGet(trending_cache, player_id)
    /\ last' = NoOp
    /\ UNCHANGED <<league_id, players_db, draft_data, matchup_data,
                   player_scores, positional_rankings, adp_cache, resolverVars, leagueVars, statsVars>>

NextValue ==
    \/ LoadTrendingData(TrendingFetches, FALSE)
    \/ LoadDraftData
    \/ LoadPerformanceData(WeekOutcomes)
    \/ CalculatePlayerValueScore

SpecValue == InitValue /\ [][NextValue]_vars

----------------------------------------------------------------------------
(* The performance tracker on its own *)

\* the arguments explored for the tracker's queries
TrackedIds == {"p1", "p2", "p3"}
QueryPositions == {Chars(PosRB), Chars(PosWR), Chars(PosK), Chars(PosAll)}
LeagueADPs == {None, PyInt(0), PyInt(3), PyInt(14), PyInt(400), PyInt(999)}
ExternalADPs == {None, PyInt(4), PyInt(7), PyInt(20)}

\* PerformanceTracker(api, league_id) inside a PlayerValueAnalyzer with a league
InitTracker ==
    /\ league_id = PyId("L1")
    /\ players_db = EmptyDict
    /\ trending_cache = EmptyDict
    /\ draft_data = EmptyDict
    /\ matchup_data = EmptyDict
    /\ player_scores = <<>>
    /\ positional_rankings = EmptyDict
    /\ adp_cache = EmptyDict
    /\ score = NoScore
    /\ RefreshIdle
    /\ LeagueIdle
    /\ StatsIdle

\* get_player_performance_rank(player_id, position)
GetPlayerPerformanceRank ==
    /\ \E player_id \in TrackedIds, position \in QueryPositions :
          last' = [op |-> "rank", player_id |-> player_id, position |-> position,
                   result |-> get_player_performance_rank(positional_rankings,
                                                          player_id, position)]
    /\ UNCHANGED <<valueVars, resolverVars, leagueVars, statsVars>>

\* calculate_performance_modifier(player_id, position, league_adp, external_adp)
CalculatePerformanceModifier ==
    /\ \E player_id \in TrackedIds, position \in QueryPositions,
          league_adp \in LeagueADPs, external_adp \in ExternalADPs :
          last' = [op |-> "modifier", player_id |-> player_id, position |-> position,
                   league_adp |-> league_adp, external_adp |-> external_adp,
                   result |-> calculate_performance_modifier(positional_rankings,
                                  player_id, position, league_adp, external_adp)]
    /\ UNCHANGED <<valueVars, resolverVars, leagueVars, statsVars>>

NextTracker ==
    \/ LoadPerformanceData(TrackerOutcomes)
    \/ GetPlayerPerformanceRank
    \/ CalculatePerformanceModifier

SpecTracker == InitTracker /\ [][NextTracker]_vars

----------------------------------------------------------------------------
(* Claims about the valuation engine, checked under SpecValue *)

\* the inputs of the call whose outcome `score` holds
Scored == score.t = "result"
ScoredInfo == PlayerInfo(players_db, score.player_id)
ScoredDraft == DraftInfo(draft_data, score.player_id)
ScoredTier == get_draft_tier(ScoredDraft)
ScoredTotal ==
    TotalScore(HasTracker, players_db, trending_cache, draft_data,
               positional_rankings, adp_cache, score.player_id, ScoredTier)
ScoredTrending ==
    IF score.player_id \in DOMAIN trending_cache THEN trending_cache[score.player_id] ELSE 0
ScoredRank ==
    get_player_performance_rank(positional_rankings, score.player_id,
                                Get(ScoredInfo.position, PyStr(PosUnknown)))

\* C1: for a Tier 1 player (draft round <= 3) the returned score is
\* max(85, sum of contributions): never below 85, and exactly 85 whenever
\* the sum of contributions is at most 85.
C1_Tier1Floor ==
    (Scored /\ ~score.raised /\ ScoredTier = 1) =>
        /\ score.value >= 85 * SCALE
        /\ score.value = Max(85 * SCALE, ScoredTotal)
        /\ (ScoredTotal <= 85 * SCALE => score.value = 85 * SCALE)

\* a Tier 1 player with base score 0 and an injury penalty: the floor decides
C1_Witness ==
    /\ Scored /\ ~score.raised /\ ScoredTier = 1
    /\ ScoredInfo.search_rank = Absent
    /\ ScoredTotal < 0
    /\ score.value = 85 * SCALE

\* C2: for a Tier 3 player (round >= 7 or no draft record) the returned
\* score lies in [0, 85].
C2_Tier3Cap ==
    (Scored /\ ~score.raised /\ ScoredTier = 3) =>
        /\ score.value >= 0
        /\ score.value <= 85 * SCALE
        /\ score.value = Max(0, Min(85 * SCALE, ScoredTotal))

\* a drafted Tier 3 player whose contributions sum to more than 85
C2_Witness ==
    /\ Scored /\ ~score.raised /\ ScoredTier = 3
    /\ Truthy(ScoredDraft)
    /\ ScoredTotal > 85 * SCALE
    /\ score.value = 85 * SCALE

\* the concrete scenario: search rank 50, Tier 2, depth slot 1, trending 0,
\* no injury status, no performance data
C3_Scenario ==
    /\ Scored /\ ~score.raised
    /\ ScoredInfo.search_rank = PyInt(50)
    /\ ScoredTier = 2
    /\ ScoredInfo.depth_chart_position = PyInt(1)
    /\ ScoredTrending = 0
    /\ ~Truthy(Get(ScoredInfo.injury_status, PyStr(<<>>)))
    /\ ~Truthy(ScoredRank)

\* C3 as stated: in the scenario the returned score is 88.
C3_Original == C3_Scenario => score.value = 88 * SCALE

\* C3 (amended): in the scenario the returned score is 98.9: base 76, depth
\* bonus 20 x 1.2 = 24, draft bonus 8 (a Tier 2 player has a draft record and
\* base >= 50), raw sum 108, soft-capped to 95 + 13 x 0.3.
C3_Scenario989 == C3_Scenario => score.value = (989 * SCALE) \div 10

C3_Witness == C3_Scenario /\ ScoredTotal = 108 * SCALE

\* every optional signal of the scored player is absent or null
MissingOrNull(v) == v.t \in {"absent", "None"}
AllSignalsMissing ==
    /\ \A f \in DOMAIN ScoredInfo : MissingOrNull(ScoredInfo[f])
    /\ \/ ~Truthy(ScoredDraft)
       \/ /\ ScoredDraft.pick_no \in {None, PyInt(999)}
          /\ ScoredDraft.round \in {None, PyInt(99)}
    /\ score.player_id \notin DOMAIN trending_cache
    /\ ~Truthy(ScoredRank)

\* C4: with every optional signal absent or null the call never raises and
\* returns a number to which no signal has contributed.
C4_NeverRaises ==
    (Scored /\ AllSignalsMissing) => ~score.raised

----------------------------------------------------------------------------
(* Identity Resolver: name similarity (difflib.SequenceMatcher.ratio) *)

\* a[i .. i+k-1] = b[j .. j+k-1]
BlockAt(a, b, i, j, k) ==
    /\ i + k - 1 <= Len(a)
    /\ j + k - 1 <= Len(b)
    /\ \A d \in 0..(k - 1) : a[i + d] = b[j + d]

HasBlock(a, b, k) ==
    \E i \in 1..Len(a) : \E j \in 1..Len(b) : BlockAt(a, b, i, j, k)

\* find_longest_match without junk: the longest common block; of those the
\* one starting earliest in a, and of those the one starting earliest in b
find_longest_match(a, b) ==
    LET k == CHOOSE n \in 0..Min(Len(a), Len(b)) :
                 /\ (n > 0 => HasBlock(a, b, n))
                 /\ ~HasBlock(a, b, n + 1)
    IN IF k = 0 THEN [i |-> 1, j |-> 1, size |-> 0]
       ELSE LET i == CHOOSE x \in 1..Len(a) :
                        /\ \E j \in 1..Len(b) : BlockAt(a, b, x, j, k)
                        /\ \A y \in 1..(x - 1) : ~\E j \in 1..Len(b) : BlockAt(a, b, y, j, k)
                j == CHOOSE x \in 1..Len(b) :
                        /\ BlockAt(a, b, i, x, k)
                        /\ \A y \in 1..(x - 1) : ~BlockAt(a, b, i, y, k)
            IN [i |-> i, j |-> j, size |-> k]

\* total size of get_matching_blocks: the longest block, then recursively the
\* pieces to its left and to its right
RECURSIVE MatchingSize(_, _)
MatchingSize(a, b) ==
    IF a = <<>> \/ b = <<>> THEN 0
    ELSE LET m == find_longest_match(a, b)
         IN IF m.size = 0 THEN 0
            ELSE m.size
                 + MatchingSize(SubSeq(a, 1, m.i - 1), SubSeq(b, 1, m.j - 1))
                 + MatchingSize(SubSeq(a, m.i + m.size, Len(a)),
                                SubSeq(b, m.j + m.size, Len(b)))

(* Scores are exact rationals [num, den] with den > 0. *)
Rat(n, d) == [num |-> n, den |-> d]
Gt(x, y) == x.num * y.den > y.num * x.den

\* SequenceMatcher(None, a, b).ratio() = 2.0 * matches / (len(a) + len(b)),
\* and 1.0 for two empty strings
Ratio(a, b) ==
    IF Len(a) + Len(b) = 0 THEN Rat(1, 1)
    ELSE Rat(2 * MatchingSize(a, b), Len(a) + Len(b))

\* similarity + team_bonus, with team_bonus = 0.3 or 0.  The sum is a double:
\* of the three sums that meet a confidence threshold exactly (0.3 + 0.3,
\* 0.4 + 0.3, 0.55 + 0.3) the first two are the doubles 0.6 and 0.7, and
\* 0.55 + 0.3 is 0.8500000000000001, the double next above 0.85; it is kept
\* apart from 0.85 here by 1/10000, less than the distance between any two
\* sums of names of up to 50 characters, and rounds to 0.85.
TotalMatchScore(similarity, team_match) ==
    IF ~team_match THEN similarity
    ELSE IF 20 * similarity.num = 11 * similarity.den THEN Rat(8501, 10000)
    ELSE Rat(10 * similarity.num + 3 * similarity.den, 10 * similarity.den)

\* round(x, 3), in thousandths (ties to even)
Round3(x) ==
    LET q == (x.num * 1000) \div x.den
        r == (x.num * 1000) % x.den
    IN IF 2 * r > x.den \/ (2 * r = x.den /\ q % 2 = 1) THEN q + 1 ELSE q

----------------------------------------------------------------------------
(* Identity Resolver: PlayerMappingRefresher *)

core_mappings_file == "player_mapping.json"
cache_file == "player_mapping_cache.json"

\* A mapping document: 'mappings' and 'metadata' (version is constant).
\* Core 'mappings' are a sequence of entries in file order (the order in which
\* candidates are tried); cache 'mappings' are a function name -> entry.
EmptyMetadata ==
    [t |-> "dict", refresh_type |-> Absent, total_matched |-> Absent,
     total_unmatched |-> Absent]

\* the document both loaders return when the file does not exist
DefaultCore == [mappings |-> <<>>, metadata |-> EmptyMetadata]
DefaultCache == [mappings |-> EmptyDict, metadata |-> EmptyMetadata, last_refreshed |-> Absent]

\* _load_core_mappings / _load_cache: only FileNotFoundError is caught; a file
\* that cannot be read or parsed makes open() / json.load() raise
LoadJson(file, default) ==
    CASE file.t = "missing" -> [raised |-> FALSE, doc |-> default]
      [] file.t = "json" -> [raised |-> FALSE, doc |-> file.doc]
      [] OTHER -> [raised |-> TRUE, doc |-> default]

\* the mappings a load of the cache file would return
PersistedMappings(fs) == LoadJson(fs[cache_file], DefaultCache).doc.mappings

_load_core_mappings(fs) == LoadJson(fs[core_mappings_file], DefaultCore)
_load_cache(fs) == LoadJson(fs[cache_file], DefaultCache)

\* a save that writes the core mapping file
_save_cache_ToCoreFile(fs, cache_data) ==
    [fs EXCEPT ![core_mappings_file] = [t |-> "json", doc |-> cache_data]]

\* _save_cache: the file written is self.cache_file
_save_cache(fs, cache_data) ==
    [fs EXCEPT ![cache_file] = [t |-> "json", doc |-> cache_data]]

\* _save_cache cut short (the process is interrupted or killed between two of
\* its steps).  open(self.cache_file, 'w') truncates the file in place and
\* json.dump writes the document into it piece by piece; there is no temporary
\* file and no rename.  The outcomes: interrupted before open (the previous
\* file), after open (an empty file), inside json.dump (a prefix of the
\* document), after the file is closed (the new document).
SaveCacheInterrupted(fs, cache_data) ==
    {fs,
     [fs EXCEPT ![cache_file] = [t |-> "empty"]],
     [fs EXCEPT ![cache_file] = [t |-> "partial"]],
     _save_cache(fs, cache_data)}

\* the seed list appended by fetch_espn_players
additional_players == <<
    [name |-> <<"A","m","o","n","-","R","a"," ","S","t","."," ","B","r","o","w","n">>,
     espn_id |-> "4361548", position |-> PosWR, team |-> <<"D","E","T">>],
    [name |-> <<"B","i","j","a","n"," ","R","o","b","i","n","s","o","n">>,
     espn_id |-> "4431882", position |-> PosRB, team |-> <<"A","T","L">>],
    [name |-> <<"G","a","r","r","e","t","t"," ","W","i","l","s","o","n">>,
     espn_id |-> "4430520", position |-> PosWR, team |-> <<"N","Y","J">>],
    [name |-> <<"C","h","r","i","s"," ","O","l","a","v","e">>,
     espn_id |-> "4430521", position |-> PosWR, team |-> <<"N","O">>],
    [name |-> <<"T",".","J","."," ","H","o","c","k","e","n","s","o","n">>,
     espn_id |-> "3918449", position |-> PosTE, team |-> <<"M","I","N">>]
>>

\* fetch_espn_players: the core mapping's entries, then the seed list
fetch_espn_players(core) == core.mappings \o additional_players

core_player_names(core) == {core.mappings[n].name : n \in 1..Len(core.mappings)}

CoreEntry(core, name) ==
    core.mappings[CHOOSE n \in 1..Len(core.mappings) : core.mappings[n].name = name]

skill_positions == {PosQB, PosRB, PosWR, PosTE}

\* the live players kept by the skill-position filter, in pool order
sleeper_skill_players(pool) ==
    SelectSeq(pool, LAMBDA pl : LET pos == Get(pl.data.position, None)
                                IN pos.t = "str" /\ pos.s \in skill_positions)

\* .get(key, '') of a string field, as characters ('' for None: only
\* truthiness and equality with a non-empty string are ever asked of it)
StrOf(v) == IF v.t = "str" THEN v.s ELSE <<>>

\* first pass: exact matches against the core mapping
RECURSIVE ExactPass(_, _, _)
ExactPass(core, players, matches) ==
    IF players = <<>> THEN matches
    ELSE LET sleeper_data == Head(players).data
             sleeper_name == FullName(sleeper_data)
         IN IF sleeper_name = <<>> \/ ~Truthy(Get(sleeper_data.team, None))
            THEN ExactPass(core, Tail(players), matches)
            ELSE IF sleeper_name \in core_player_names(core)
            THEN ExactPass(core, Tail(players),
                    [k \in DOMAIN matches \cup {sleeper_name} |->
                        IF k = sleeper_name
                        THEN [sleeper_id |-> Head(players).id,
                              espn_id |-> CoreEntry(core, sleeper_name).espn_id,
                              position |-> StrOf(sleeper_data.position),
                              team |-> StrOf(sleeper_data.team),
                              confidence |-> "verified",
                              match_score |-> 1000]
                        ELSE matches[k]])
            ELSE ExactPass(core, Tail(players), matches)

\* a candidate replaces the best one so far whatever its score
Accepted_NoThreshold(total_score, best_score) == Gt(total_score, best_score)

\* total_score > best_score and total_score > 0.6
Accepted(total_score, best_score) ==
    Gt(total_score, best_score) /\ Gt(total_score, Rat(6, 10))

\* the candidate loop: best is [score, found, match], found = FALSE while
\* best_match is None
RECURSIVE BestCandidate(_, _, _, _, _)
BestCandidate(sleeper_name, sleeper_pos, sleeper_team, espn_players, best) ==
    IF espn_players = <<>> THEN best
    ELSE LET espn_player == Head(espn_players)
             total_score ==
                 TotalMatchScore(Ratio(Lower(sleeper_name), Lower(espn_player.name)),
                                 sleeper_team = espn_player.team)
         IN BestCandidate(sleeper_name, sleeper_pos, sleeper_team, Tail(espn_players),
                IF sleeper_pos # espn_player.position THEN best
                ELSE IF Accepted(total_score, best.score)
                     THEN [score |-> total_score, found |-> TRUE, match |-> espn_player]
                     ELSE best)

NoBest == [score |-> Rat(0, 1), found |-> FALSE, match |-> [espn_id |-> ""]]

\* every score above 0.7 is 'high'
Confidence_NoMedium(best_score) ==
    IF Gt(best_score, Rat(7, 10)) THEN "high" ELSE "low"

\* "high" if best_score > 0.85 else "medium" if best_score > 0.7 else "low"
Confidence(best_score) ==
    IF Gt(best_score, Rat(85, 100)) THEN "high"
    ELSE IF Gt(best_score, Rat(7, 10)) THEN "medium"
    ELSE "low"

\* second pass: fuzzy matching of the players not matched so far
RECURSIVE FuzzyPass(_, _, _)
FuzzyPass(espn_players, players, acc) ==
    IF players = <<>> THEN acc
    ELSE LET sleeper_data == Head(players).data
             sleeper_name == FullName(sleeper_data)
             sleeper_pos == StrOf(Get(sleeper_data.position, PyStr(<<>>)))
             sleeper_team == StrOf(Get(sleeper_data.team, PyStr(<<>>)))
         IN IF sleeper_name = <<>> \/ ~Truthy(Get(sleeper_data.team, PyStr(<<>>)))
               \/ sleeper_name \in DOMAIN acc.matches
            THEN FuzzyPass(espn_players, Tail(players), acc)
            ELSE LET best == BestCandidate(sleeper_name, sleeper_pos, sleeper_team,
                                           espn_players, NoBest)
                 IN FuzzyPass(espn_players, Tail(players),
                      IF best.found
                      THEN [acc EXCEPT !.matches =
                              [k \in DOMAIN acc.matches \cup {sleeper_name} |->
                                 IF k = sleeper_name
                                 THEN [sleeper_id |-> Head(players).id,
                                       espn_id |-> best.match.espn_id,
                                       position |-> sleeper_pos,
                                       team |-> sleeper_team,
                                       confidence |-> Confidence(best.score),
                                       match_score |-> Round3(best.score)]
                                 ELSE acc.matches[k]]]
                      ELSE [acc EXCEPT !.unmatched =
                              Append(acc.unmatched,
                                     [sleeper_id |-> Head(players).id,
                                      name |-> sleeper_name,
                                      position |-> sleeper_pos,
                                      team |-> sleeper_team])])

\* the fuzzy pass alone, without the exact pass before it
fuzzy_match_players_NoExactPass(core, pool, espn_players) ==
    FuzzyPass(espn_players, sleeper_skill_players(pool),
              [matches |-> EmptyDict, unmatched |-> <<>>])

fuzzy_match_players(core, pool, espn_players) ==
    LET skill == sleeper_skill_players(pool)
    IN FuzzyPass(espn_players, skill,
                 [matches |-> ExactPass(core, skill, EmptyDict), unmatched |-> <<>>])

\* a report that lists every common name as updated
generate_diff_report_AllUpdated(current_mappings, new_matches) ==
    LET new_mappings == new_matches.matches
    IN [added |-> [name \in {n \in DOMAIN new_mappings : n \notin DOMAIN current_mappings}
                     |-> new_mappings[name]],
        updated |-> [name \in {n \in DOMAIN new_mappings : n \in DOMAIN current_mappings}
                       |-> [old |-> current_mappings[name], new |-> new_mappings[name]]],
        removed |-> [name \in {n \in DOMAIN current_mappings : n \notin DOMAIN new_mappings}
                       |-> current_mappings[name]],
        unmatched |-> new_matches.unmatched]

\* generate_diff_report against the cache's current mappings
generate_diff_report(current_mappings, new_matches) ==
    LET new_mappings == new_matches.matches
    IN [added |-> [name \in {n \in DOMAIN new_mappings : n \notin DOMAIN current_mappings}
                     |-> new_mappings[name]],
        updated |-> [name \in {n \in DOMAIN new_mappings :
                                  /\ n \in DOMAIN current_mappings
                                  /\ new_mappings[n].espn_id # current_mappings[n].espn_id}
                       |-> [old |-> current_mappings[name], new |-> new_mappings[name]]],
        removed |-> [name \in {n \in DOMAIN current_mappings : n \notin DOMAIN new_mappings}
                       |-> current_mappings[name]],
        unmatched |-> new_matches.unmatched]

\* a merge in which the entries already present win
Update_KeepExisting(dst, src) ==
    [k \in DOMAIN dst \cup DOMAIN src |-> IF k \in DOMAIN dst THEN dst[k] ELSE src[k]]

\* dict.update: the entries of src override those of dst
Update(dst, src) ==
    [k \in DOMAIN dst \cup DOMAIN src |-> IF k \in DOMAIN src THEN src[k] ELSE dst[k]]

\* the cache update of refresh_mappings; raised stands for the KeyError of
\* self.cache['metadata'][...] on a cache document without 'metadata', which
\* strikes after the in-memory mappings were merged and before the save
UpdateCache(c, new_matches, full_refresh) ==
    IF full_refresh \/ DOMAIN c.mappings = {}
    THEN [raised |-> FALSE,
          cache |-> [mappings |-> new_matches.matches,
                     metadata |-> [t |-> "dict", refresh_type |-> "full",
                                   total_matched |-> Cardinality(DOMAIN new_matches.matches),
                                   total_unmatched |-> Len(new_matches.unmatched)],
                     last_refreshed |-> "today"]]
    ELSE LET merged == [c EXCEPT !.mappings = Update(c.mappings, new_matches.matches),
                                 !.last_refreshed = "today"]
         IN IF c.metadata.t # "dict" THEN [raised |-> TRUE, cache |-> merged]
            ELSE [raised |-> FALSE,
                  cache |-> [merged EXCEPT !.metadata.refresh_type = "incremental"]]

----------------------------------------------------------------------------
(* Inputs of the identity resolver *)

ChrisOlave == <<"C","h","r","i","s"," ","O","l","a","v","e">>
CyOx == <<"C","y"," ","O","x">>
JoWil == <<"J","o"," ","W","i","l">>
OldGuy == <<"O","l","d"," ","G","u","y">>
TeamNO == <<"N","O">>
TeamDET == <<"D","E","T">>
TeamNYJ == <<"N","Y","J">>
TeamATL == <<"A","T","L">>

Live(first_name, last_name, position, team) ==
    [EmptyInfo EXCEPT !.first_name = first_name, !.last_name = last_name,
                      !.position = position, !.team = team]

\* a last name of 23 characters: with the first name "Chris" a full name of 29
\* characters, 11 of which match the 11 of "Chris Olave" (ratio 22/40 = 0.55)
OlaveZ == <<"O","l","a","v","e"," ">> \o [n \in 1..17 |-> "z"]

\* records of live players: a core-named player with and without a team, a
\* player no candidate resembles, players at the accept thresholds, a name in
\* another letter case, a non-skill position, a player at the 'high'
\* threshold and one in the 'medium' tier
LiveRecords ==
    {Live(Chars(<<"C","h","r","i","s">>), Chars(<<"O","l","a","v","e">>), Chars(PosWR), Chars(TeamNO)),
     Live(Chars(<<"C","h","r","i","s">>), Chars(<<"O","l","a","v","e">>), Chars(PosWR), None),
     Live(Chars(<<"C","y">>), Chars(<<"O","x">>), Chars(PosWR), Chars(TeamDET)),
     Live(Chars(<<"C","y">>), Chars(<<"O","x">>), Chars(PosWR), Chars(TeamNO)),
     Live(Chars(<<"J","o">>), Chars(<<"W","i","l">>), Chars(PosWR), Chars(TeamNYJ)),
     Live(Chars(<<"B","o">>), Chars(<<"N","i","x">>), Chars(PosRB), Chars(TeamATL)),
     Live(Chars(<<"c","h","r","i","s">>), Chars(<<"O","L","A","V","E">>), Chars(PosWR), Chars(TeamNYJ)),
     Live(Chars(<<"C","h","r","i","s">>), Chars(<<"O","l","a","v","e">>), Chars(PosK), Chars(TeamNO)),
     Live(Chars(<<"C","h","r","i","s">>), Chars(OlaveZ), Chars(PosWR), Chars(TeamNO)),
     Live(Chars(<<"C","h","r","i","s">>), Chars(<<"O">>), Chars(PosWR), Chars(TeamATL))}

\* the live pool holds at most MaxPool players
MaxPool == 2

SleeperIds == <<"s1", "s2", "s3", "s4">>

Pools ==
    UNION {{[n \in 1..len |-> [id |-> SleeperIds[n], data |-> recs[n]]] :
              recs \in [1..len -> LiveRecords]} : len \in 0..MaxPool}

CoreMapping(name, espn_id, position, team) ==
    [name |-> name, espn_id |-> espn_id, position |-> position, team |-> team]

\* states of the core mapping file
CoreFiles ==
    {[t |-> "missing"], [t |-> "unreadable"], [t |-> "malformed"],
     [t |-> "json", doc |-> [mappings |-> <<CoreMapping(ChrisOlave, "900", PosWR, TeamNO)>>,
                             metadata |-> EmptyMetadata]],
     [t |-> "json", doc |-> [mappings |-> <<CoreMapping(CyOx, "901", PosWR, TeamDET),
                                            CoreMapping(ChrisOlave, "900", PosWR, TeamNO)>>,
                             metadata |-> EmptyMetadata]]}

CachedEntry(sleeper_id, espn_id, position, team, confidence, match_score) ==
    [sleeper_id |-> sleeper_id, espn_id |-> espn_id, position |-> position,
     team |-> team, confidence |-> confidence, match_score |-> match_score]

FullMetadata ==
    [t |-> "dict", refresh_type |-> "full", total_matched |-> 2, total_unmatched |-> 0]

\* states of the cache file: absent, unusable, with earlier matches (one of a
\* name no longer live, one with an external id that a refresh changes), and
\* a hand-written document without 'metadata'
CacheFiles ==
    {[t |-> "missing"], [t |-> "unreadable"], [t |-> "malformed"],
     [t |-> "json",
      doc |-> [mappings |-> (OldGuy :> CachedEntry("s9", "77", PosWR, TeamDET, "low", 650))
                            @@ (ChrisOlave :> CachedEntry("s1", "555", PosWR, TeamNO, "high", 900)),
               metadata |-> FullMetadata, last_refreshed |-> "earlier"]],
     [t |-> "json",
      doc |-> [mappings |-> (JoWil :> CachedEntry("s1", "4430520", PosWR, TeamNYJ, "low", 700)),
               metadata |-> Absent, last_refreshed |-> Absent]]}

\* match sets handed to generate_diff_report when it is called on its own
DiffInputs ==
    {[matches |-> EmptyDict, unmatched |-> <<>>],
     [matches |-> (ChrisOlave :> CachedEntry("s1", "555", PosWR, TeamNO, "verified", 1000))
                  @@ (CyOx :> CachedEntry("s2", "901", PosWR, TeamDET, "verified", 1000)),
      unmatched |-> <<>>],
     [matches |-> (JoWil :> CachedEntry("s1", "4430521", PosWR, TeamNYJ, "low", 650)),
      unmatched |-> <<>>]}

----------------------------------------------------------------------------
(* The identity resolver as a state machine *)

\* last records the latest operation and what it saw and produced: synced
\* tells that the cache in memory is the saved one (was_synced: when the
\* operation began), persisted is the mapping held by the cache file when the
\* operation began

\* the valuation engine takes no part in the refresher's runs
ValueIdle ==
    /\ league_id = None
    /\ players_db = EmptyDict
    /\ trending_cache = EmptyDict
    /\ draft_data = EmptyDict
    /\ matchup_data = EmptyDict
    /\ player_scores = <<>>
    /\ positional_rankings = EmptyDict
    /\ adp_cache = EmptyDict
    /\ score = NoScore

InitRefresh ==
    /\ files \in [{core_mappings_file, cache_file} -> CoreFiles \cup CacheFiles]
    /\ files[core_mappings_file] \in CoreFiles
    /\ files[cache_file] \in CacheFiles
    /\ sleeper_players \in Pools
    /\ players_cache = None
    /\ refresher = "none"
    /\ core_mappings = DefaultCore
    /\ cache = DefaultCache
    /\ last = [op |-> "none", synced |-> TRUE]
    /\ ValueIdle
    /\ LeagueIdle
    /\ StatsIdle

\* PlayerMappingRefresher(): the core mapping is loaded, then the cache; an
\* exception leaving either loader aborts the construction
Construct ==
    /\ refresher = "none"
    /\ LET core == _load_core_mappings(files)
           cached == _load_cache(files)
       IN IF core.raised \/ cached.raised
          THEN /\ refresher' = "aborted"
               /\ UNCHANGED <<core_mappings, cache>>
          ELSE /\ refresher' = "constructed"
               /\ core_mappings' = core.doc
               /\ cache' = cached.doc
    /\ last' = [op |-> "construct", synced |-> TRUE]
    /\ UNCHANGED <<files, sleeper_players, players_cache, valueVars, leagueVars, statsVars>>

\* refresh_mappings(full_refresh).  The player database comes from
\* SleeperAPI.get_all_players, which raises on a transport error unless the
\* database is already cached (no request is made then).
\* The process may be interrupted while _save_cache runs; it ends there.
RefreshMappings ==
    /\ refresher = "constructed"
    /\ \E fetch_ok \in IF players_cache = None THEN BOOLEAN ELSE {TRUE} :
          IF ~fetch_ok
          THEN /\ \E full_refresh \in BOOLEAN :
                     last' = [op |-> "refresh", full |-> full_refresh, raised |-> TRUE,
                              saved |-> FALSE, synced |-> last.synced]
               /\ UNCHANGED <<files, cache, players_cache, refresher>>
          ELSE \E players \in {IF players_cache = None THEN sleeper_players
                                ELSE players_cache.pool} :
               \E new_matches \in {fuzzy_match_players(core_mappings, players,
                                        fetch_espn_players(core_mappings))} :
               \E diff_report \in {generate_diff_report(cache.mappings, new_matches)} :
               \E full_refresh \in BOOLEAN :
               \E upd \in {UpdateCache(cache, new_matches, full_refresh)} :
               \E interrupted \in IF upd.raised THEN {FALSE} ELSE BOOLEAN :
                  /\ players_cache' = [t |-> "dict", pool |-> players]
                  /\ cache' = upd.cache
                  /\ IF interrupted
                     THEN /\ files' \in SaveCacheInterrupted(files, upd.cache)
                          /\ last' = [op |-> "interrupted", synced |-> FALSE,
                                      previous |-> files[cache_file],
                                      document |-> upd.cache]
                     ELSE /\ files' = IF upd.raised THEN files
                                      ELSE _save_cache(files, upd.cache)
                          /\ last' = [op |-> "refresh", full |-> full_refresh,
                                      raised |-> upd.raised, saved |-> ~upd.raised,
                                      synced |-> ~upd.raised, was_synced |-> last.synced,
                                      persisted |-> PersistedMappings(files),
                                      before |-> cache.mappings,
                                      new_matches |-> new_matches,
                                      diff_report |-> diff_report]
                  /\ refresher' = IF interrupted THEN "interrupted" ELSE refresher
    /\ UNCHANGED <<core_mappings, sleeper_players, valueVars, leagueVars, statsVars>>

\* generate_diff_report called on its own with a match set
GenerateDiffReport ==
    /\ refresher = "constructed"
    /\ \E new_matches \in DiffInputs :
          last' = [op |-> "diff", synced |-> last.synced, was_synced |-> last.synced,
                   persisted |-> PersistedMappings(files),
                   before |-> cache.mappings, new_matches |-> new_matches,
                   diff_report |-> generate_diff_report(cache.mappings, new_matches)]
    /\ UNCHANGED <<files, refresher, core_mappings, cache, sleeper_players,
                   players_cache, valueVars, leagueVars, statsVars>>

\* interactive_mode: a placeholder that only prints
InteractiveMode ==
    /\ refresher = "constructed"
    /\ last' = [op |-> "interactive", synced |-> last.synced]
    /\ UNCHANGED <<files, refresher, core_mappings, cache, sleeper_players,
                   players_cache, valueVars, leagueVars, statsVars>>

NextRefresh ==
    \/ Construct
    \/ RefreshMappings
    \/ GenerateDiffReport
    \/ InteractiveMode

SpecRefresh == InitRefresh /\ [][NextRefresh]_vars

----------------------------------------------------------------------------
(* Identity Resolver: properties of fuzzy_match_players *)

\* the latest operation ran fuzzy_match_players to its end
Matched == last.op = "refresh" /\ "new_matches" \in DOMAIN last

\* the live pool that call received, its skill-position players, the match
\* set it returned and the candidates it tried
MatchedPool == players_cache.pool
MatchedSkill == sleeper_skill_players(MatchedPool)
MatchedSet == last.new_matches
MatchedCandidates == fetch_espn_players(core_mappings)

HasTeam(pl) == Truthy(Get(pl.data.team, None))

\* similarity + teamBonus of a live player against a candidate
ScoreAgainst(pl, candidate) ==
    TotalMatchScore(Ratio(Lower(FullName(pl.data)), Lower(candidate.name)),
                    StrOf(pl.data.team) = candidate.team)

\* a candidate of the player's position whose total score is above 0.6
Clears(pl, candidate) ==
    /\ candidate.position = StrOf(pl.data.position)
    /\ Gt(ScoreAgainst(pl, candidate), Rat(6, 10))

HasClearingCandidate(pl) ==
    \E n \in 1..Len(MatchedCandidates) : Clears(pl, MatchedCandidates[n])

\* the entry of the exact pass for a name of the core mapping
IsVerifiedEntry(name) ==
    /\ name \in DOMAIN MatchedSet.matches
    /\ MatchedSet.matches[name].confidence = "verified"
    /\ MatchedSet.matches[name].match_score = 1000
    /\ MatchedSet.matches[name].espn_id = CoreEntry(core_mappings, name).espn_id

\* C5 as stated: every live skill-position player whose full name is a key of
\* the core mapping has the 'verified' entry of that name, score 1.0, with the
\* core mapping's external id, in the result of fuzzy_match_players.
C5_Original ==
    Matched =>
        \A n \in 1..Len(MatchedSkill) :
            FullName(MatchedSkill[n].data) \in core_player_names(core_mappings)
                => IsVerifiedEntry(FullName(MatchedSkill[n].data))

\* C5: every live skill-position player WITH A NON-EMPTY TEAM whose full name
\* is a key of the core mapping has, in the result of fuzzy_match_players, the
\* entry of that name with confidence 'verified', match score 1.0, the core
\* mapping's external id and the id of a live player of that name; the fuzzy
\* pass leaves that entry as the exact pass wrote it.
C5_CoreNamesVerified ==
    Matched =>
        \A n \in 1..Len(MatchedSkill) :
            LET pl == MatchedSkill[n]
                name == FullName(pl.data)
            IN (HasTeam(pl) /\ name \in core_player_names(core_mappings))
                   => /\ IsVerifiedEntry(name)
                      /\ \E m \in 1..Len(MatchedSkill) :
                            /\ FullName(MatchedSkill[m].data) = name
                            /\ HasTeam(MatchedSkill[m])
                            /\ MatchedSet.matches[name].sleeper_id = MatchedSkill[m].id
                      /\ MatchedSet.matches = Update(MatchedSet.matches,
                             ExactPass(core_mappings, MatchedSkill, EmptyDict))

\* a core-named player with a team was matched although a candidate with
\* another external id scores above 1.0 for that player
C5_Witness ==
    /\ Matched
    /\ \E n \in 1..Len(MatchedSkill) :
          LET pl == MatchedSkill[n]
              name == FullName(pl.data)
          IN /\ HasTeam(pl)
             /\ name \in core_player_names(core_mappings)
             /\ MatchedSet.matches[name].confidence = "verified"
             /\ \E c \in 1..Len(MatchedCandidates) :
                   /\ MatchedCandidates[c].espn_id # MatchedSet.matches[name].espn_id
                   /\ MatchedCandidates[c].position = StrOf(pl.data.position)
                   /\ Gt(ScoreAgainst(pl, MatchedCandidates[c]), Rat(1, 1))

\* the players the fuzzy pass considers: a name, a team, no exact match
InFuzzyPass(pl) ==
    /\ FullName(pl.data) # <<>>
    /\ HasTeam(pl)
    /\ FullName(pl.data) \notin DOMAIN ExactPass(core_mappings, MatchedSkill, EmptyDict)

IsUnmatched(pl) ==
    \E u \in 1..Len(MatchedSet.unmatched) : MatchedSet.unmatched[u].sleeper_id = pl.id

\* an entry written by the fuzzy pass comes from a candidate that clears 0.6
FuzzyEntriesClear ==
    \A name \in DOMAIN MatchedSet.matches :
        MatchedSet.matches[name].confidence # "verified"
            => \E n \in 1..Len(MatchedSkill) :
                  /\ MatchedSkill[n].id = MatchedSet.matches[name].sleeper_id
                  /\ FullName(MatchedSkill[n].data) = name
                  /\ \E c \in 1..Len(MatchedCandidates) :
                        /\ Clears(MatchedSkill[n], MatchedCandidates[c])
                        /\ MatchedCandidates[c].espn_id = MatchedSet.matches[name].espn_id
                        /\ MatchedSet.matches[name].match_score
                               = Round3(ScoreAgainst(MatchedSkill[n], MatchedCandidates[c]))

NameTakenBefore(n) ==
    \E m \in 1..(n - 1) :
        /\ FullName(MatchedSkill[m].data) = FullName(MatchedSkill[n].data)
        /\ InFuzzyPass(MatchedSkill[m])
        /\ HasClearingCandidate(MatchedSkill[m])

----------------------------------------------------------------------------
(* Identity Resolver: properties of the diff report and the cache *)

\* the latest operation produced a diff report
Diffed == "diff_report" \in DOMAIN last

\* names that appear, disappear and change their external id between the
\* cached mappings (last.before) and the new match set
AppearedNames == DOMAIN last.new_matches.matches \ DOMAIN last.before
DisappearedNames == DOMAIN last.before \ DOMAIN last.new_matches.matches
ChangedNames ==
    {n \in DOMAIN last.new_matches.matches \cap DOMAIN last.before :
        last.new_matches.matches[n].espn_id # last.before[n].espn_id}

Updated == last.op = "refresh" /\ "new_matches" \in DOMAIN last

\* C8: after refresh_mappings(full_refresh=True) the cache mappings are exactly
\* the new match set; after refresh_mappings(full_refresh=False) every new
\* match overrides the cached entry of its name and every cached entry whose
\* name is not in the new match set is retained unchanged; a call that
\* returns has written that cache to the cache file.
C8_ReplaceOrMerge ==
    Updated =>
        LET new == last.new_matches.matches
        IN /\ last.full => cache.mappings = new
           /\ ~last.full =>
                 /\ DOMAIN cache.mappings = DOMAIN last.before \cup DOMAIN new
                 /\ \A n \in DOMAIN new : cache.mappings[n] = new[n]
                 /\ \A n \in DOMAIN last.before \ DOMAIN new :
                       cache.mappings[n] = last.before[n]
           /\ ~last.raised =>
                 /\ files[cache_file].t = "json"
                 /\ files[cache_file].doc = cache

\* an incremental refresh overrode the entry of one name and kept the entry
\* of another, and a full refresh dropped an entry that was not matched again
C8_WitnessMerge ==
    /\ Updated
    /\ ~last.full
    /\ last.saved
    /\ \E n \in DOMAIN last.before :
          /\ n \in DOMAIN last.new_matches.matches
          /\ last.before[n] # cache.mappings[n]
    /\ \E n \in DOMAIN last.before :
          /\ n \notin DOMAIN last.new_matches.matches
          /\ last.before[n] = cache.mappings[n]

\* C9: no refresh operation (full refresh, incremental refresh, interactive
\* mode, diff generation) changes the core mapping: no step writes the core
\* mapping file, and once the refresher is constructed its in-memory core
\* mapping stays the same.
C9_CoreNeverWritten ==
    [][/\ files'[core_mappings_file] = files[core_mappings_file]
       /\ refresher = "constructed" => core_mappings' = core_mappings]_vars

\* a refresh with a non-empty core mapping saved a non-empty cache
C9_Witness ==
    /\ last.op = "refresh"
    /\ last.saved
    /\ DOMAIN cache.mappings # {}
    /\ core_mappings.mappings # <<>>
    /\ files[core_mappings_file] = [t |-> "json", doc |-> core_mappings]
    /\ files[cache_file] = [t |-> "json", doc |-> cache]

\* C10 as stated: whenever the core mapping file or the cache file is missing,
\* unreadable or not parseable, constructing the refresher succeeds and the
\* mapping loaded from that file is empty.
C10_LoadersFallBack ==
    last.op = "construct" =>
        /\ refresher = "constructed"
        /\ files[core_mappings_file].t # "json" => core_mappings = DefaultCore
        /\ files[cache_file].t # "json" => cache = DefaultCache

----------------------------------------------------------------------------
(* Performance tracker: properties of load_performance_data *)

\* the latest operation was load_performance_data on an analyzer with a tracker
LoadedPerformance == last.op = "load_performance" /\ HasTracker

\* the history of a player in a player_scores table
HistoryOf(ps, id) ==
    IF \E n \in 1..Len(ps) : ps[n].id = id
    THEN ps[CHOOSE n \in 1..Len(ps) : ps[n].id = id].scores
    ELSE <<>>

\* the samples one list of matchups holds for a player, in matchup order
RECURSIVE MatchupSamples(_, _, _)
MatchupSamples(id, week, matchups) ==
    IF matchups = <<>> THEN <<>>
    ELSE LET pp == Head(matchups).players_points
             own == IF pp.t = "absent" THEN <<>>
                    ELSE SelectSeq(pp.items, LAMBDA it : it[1] = id)
         IN [n \in 1..Len(own) |-> [week |-> week, points |-> own[n][2]]]
            \o MatchupSamples(id, week, Tail(matchups))

\* the samples the weeks from `week` on hold for a player, failed weeks left out
RECURSIVE FetchedSamples(_, _, _)
FetchedSamples(id, week, outcome) ==
    IF week > LastWeek THEN <<>>
    ELSE (IF outcome[week].t = "raise" THEN <<>>
          ELSE MatchupSamples(id, week, outcome[week].matchups))
         \o FetchedSamples(id, week + 1, outcome)

\* every week that was fetched is stored, every sample of a fetched week is
\* appended in ascending week order, a failed week adds nothing, and the rank
\* table is the one computed from the final histories
WeeksLoaded ==
    /\ \A w \in 1..LastWeek :
          IF last.outcome[w].t = "raise"
          THEN /\ w \in DOMAIN matchup_data <=> w \in DOMAIN last.before.matchup_data
               /\ w \in DOMAIN matchup_data => matchup_data[w] = last.before.matchup_data[w]
          ELSE /\ w \in DOMAIN matchup_data
               /\ matchup_data[w] = last.outcome[w].matchups
    /\ \A id \in TrackedIds :
          HistoryOf(player_scores, id)
              = HistoryOf(last.before.player_scores, id) \o FetchedSamples(id, 1, last.outcome)
    /\ positional_rankings
          = _calculate_positional_rankings(last.before.positional_rankings, player_scores)

----------------------------------------------------------------------------
(* Performance tracker: properties of the rank table and the modifier *)

\* the summed full-history points of a player
TotalOf(id) == SumPoints(HistoryOf(player_scores, id))

\* a 1-based index of the player in a descending order of the totals
IsDescendingIndex(rank, id) ==
    /\ rank.t = "int"
    /\ rank.i > Cardinality({o \in TrackedIds : HistoryOf(player_scores, o) # <<>>
                                                 /\ TotalOf(o) > TotalOf(id)})
    /\ rank.i <= Cardinality({o \in TrackedIds : HistoryOf(player_scores, o) # <<>>
                                                  /\ TotalOf(o) >= TotalOf(id)})

\* C12 as stated: after load_performance_data, for every player with recorded
\* points and a position among QB/RB/WR/TE/K/DEF, get_player_performance_rank
\* returns the player's 1-based index in the descending order of summed
\* full-history points.
C12_RankIsIndex ==
    (/\ last.op = "rank"
     /\ HistoryOf(player_scores, last.player_id) # <<>>
     /\ last.position.s \in {PosQB, PosRB, PosWR, PosTE, PosK, PosDef})
        => IsDescendingIndex(last.result, last.player_id)

\* the latest operation was calculate_performance_modifier
Modified == last.op = "modifier"

\* the rank table holds a rank for the queried player under the queried key
QueriedHasRank ==
    /\ last.position.s \in DOMAIN positional_rankings
    /\ last.player_id \in DOMAIN positional_rankings[last.position.s]
QueriedRank == positional_rankings[last.position.s][last.player_id].i

\* an ADP source is present: a number other than 0, and for the league ADP
\* other than the 'no pick number' sentinel 999 (or above)
LeaguePresent == last.league_adp.t = "int" /\ last.league_adp.i # 0 /\ last.league_adp.i < 999
ExternalPresent == last.external_adp.t = "int" /\ last.external_adp.i # 0

\* max(1, floor(adp x position multiplier)), the multiplier in hundredths
FloorExpected(adp) ==
    LET f == (adp * PositionMultiplier(last.position)) \div 100
    IN IF f >= 1 THEN f ELSE 1

\* clamp((expected - current) x positionWeight x 2, -15, +15) in 1/SCALE
ClampedModifier(expected) ==
    LET raw == (expected - QueriedRank) * PositionWeight(last.position) * 2 * (SCALE \div 100)
    IN IF raw > 15 * SCALE THEN 15 * SCALE
       ELSE IF raw < -15 * SCALE THEN -15 * SCALE
       ELSE raw

\* C13: for a player with a performance rank and both a league ADP and an
\* external ADP, calculate_performance_modifier uses the larger of the two
\* expected ranks, each max(1, floor(adp x position multiplier)), and returns
\* clamp((expectedRank - currentRank) x positionWeight x 2, -15, +15), which
\* is positive exactly when currentRank < expectedRank.
C13_ModifierFromBothADPs ==
    (Modified /\ QueriedHasRank /\ LeaguePresent /\ ExternalPresent) =>
        LET el == FloorExpected(last.league_adp.i)
            ee == FloorExpected(last.external_adp.i)
            expected == IF el >= ee THEN el ELSE ee
        IN /\ last.result = ClampedModifier(expected)
           /\ last.result > 0 <=> QueriedRank < expected
           /\ last.result >= -15 * SCALE
           /\ last.result <= 15 * SCALE

\* a ranked player whose league ADP gives the larger expected rank and whose
\* raw modifier exceeds 15: the result is clamped to +15
C13_Witness ==
    /\ Modified /\ QueriedHasRank /\ LeaguePresent /\ ExternalPresent
    /\ FloorExpected(last.league_adp.i) > FloorExpected(last.external_adp.i)
    /\ (FloorExpected(last.league_adp.i) - QueriedRank)
           * PositionWeight(last.position) * 2 > 15 * 100
    /\ last.result = 15 * SCALE

\* C14: calculate_performance_modifier returns modifier 0 whenever the player
\* has no performance rank or neither ADP source is present; an absent source
\* is never used as the value 0: when exactly one of league ADP / external
\* ADP is present the expected rank is the one derived from that source.
C14_MissingSignalsNeutral ==
    Modified =>
        /\ ~QueriedHasRank => last.result = 0
        /\ (~LeaguePresent /\ ~ExternalPresent) => last.result = 0
        /\ (QueriedHasRank /\ LeaguePresent /\ ~ExternalPresent)
              => last.result = ClampedModifier(FloorExpected(last.league_adp.i))
        /\ (QueriedHasRank /\ ~LeaguePresent /\ ExternalPresent)
              => last.result = ClampedModifier(FloorExpected(last.external_adp.i))

\* a ranked player with only the external ADP present: the modifier is not 0,
\* although using the absent league ADP as 0 would give expected rank 1
C14_Witness ==
    /\ Modified /\ QueriedHasRank
    /\ last.league_adp = None
    /\ ExternalPresent
    /\ FloorExpected(last.external_adp.i) > QueriedRank
    /\ last.result > 0

----------------------------------------------------------------------------
(* Valuation engine: calculate_player_value_score reads only *)

----------------------------------------------------------------------------
(* The analysis runs: main(), analyze_league / analyze_waiver_wire and the
   loading step load_league_data of either analyzer *)

\* the gateway's calls; each may raise a transport error (raise_for_status)
GatewayCalls ==
    {"get_league_info", "get_league_rosters", "get_league_users",
     "get_all_players", "get_trending_players", "get_draft_picks",
     "get_league_scoring_settings", "get_league_matchups"}

User(name, id) == [display_name |-> name, user_id |-> PyId(id)]
Roster(owner) == [owner_id |-> owner, players |-> <<"p1">>]

\* the leagues explored: the target user first, second, without a display
\* name or not a member; their roster present, absent, or unowned
LeagueUsers ==
    {<<>>,
     <<User(PyId("ann"), "u1")>>,
     <<User(PyId("bob"), "u2"), User(PyId("ann"), "u1")>>,
     <<User(PyId("bob"), "u2"), User(Absent, "u3")>>}
LeagueRosters ==
    {<<>>,
     <<Roster(PyId("u1"))>>,
     <<Roster(PyId("u2")), Roster(None)>>,
     <<Roster(PyId("u2")), Roster(PyId("u1"))>>}
DraftIds == {None, PyId("d1")}
DisplayNames == {PyId("ann"), PyId("cat")}

\* the calls of a sequence that are made: all up to the first that raises
RECURSIVE CallsUntilRaise(_, _)
CallsUntilRaise(calls, failing) ==
    IF calls = <<>> THEN <<>>
    ELSE IF Head(calls) \in failing THEN <<Head(calls)>>
    ELSE <<Head(calls)>> \o CallsUntilRaise(Tail(calls), failing)

Raises(calls, failing) == \E i \in DOMAIN calls : calls[i] \in failing

\* load_trending_data: two fetches inside one try; any error is swallowed
TrendingCalls(failing) ==
    CallsUntilRaise(<<"get_trending_players", "get_trending_players">>, failing)

\* load_draft_data, called only with a truthy draft id: one fetch inside a try
DraftCalls(draft_id, failing) ==
    IF Truthy(draft_id) THEN <<"get_draft_picks">> ELSE <<>>

\* PerformanceTracker.load_performance_data: the scoring settings, then one
\* fetch per week, each week inside its own try, all inside an outer try
PerformanceCalls(failing) ==
    IF "get_league_scoring_settings" \in failing
    THEN <<"get_league_scoring_settings">>
    ELSE <<"get_league_scoring_settings">>
         \o [w \in 1..LastWeek |-> "get_league_matchups"]

\* the three loads of the value analyzer, in the order both analyzers run them
ValueLoads(draft_id, failing) ==
    TrendingCalls(failing) \o DraftCalls(draft_id, failing)
    \o PerformanceCalls(failing)

\* the loads of the value analyzer that ended with their data
LoadedWith(draft_id, failing) ==
    (IF "get_trending_players" \in failing THEN {} ELSE {"trending"})
    \cup (IF Truthy(draft_id) /\ "get_draft_picks" \notin failing
          THEN {"draft"} ELSE {})
    \cup (IF "get_league_scoring_settings" \notin failing
             /\ "get_league_matchups" \notin failing
          THEN {"performance"} ELSE {})

NoError == "none"
RequestException == "RequestException"
ValueError == "ValueError"

\* what a loading step leaves: the gateway calls it made, the error it raised
\* to its caller, the fields it set and the loads that ended with data
Loading(calls, error, user_id, user_roster, loaded, filtered) ==
    [calls |-> calls, error |-> error, user_id |-> user_id,
     user_roster |-> user_roster, loaded |-> loaded,
     available_players |-> filtered]

\* LeagueAnalyzer.load_league_data: league info, rosters, users and the player
\* database are fetched outside any try; then the value analyzer's loads
LeagueAnalyzer_load_league_data(gw, failing) ==
    LET core == <<"get_league_info", "get_league_rosters",
                  "get_league_users", "get_all_players">>
    IN  IF Raises(core, failing)
        THEN Loading(CallsUntilRaise(core, failing), RequestException,
                     None, None, {}, FALSE)
        ELSE Loading(core \o ValueLoads(gw.draft_id, failing), NoError,
                     None, None,
                     {"players_db"} \cup LoadedWith(gw.draft_id, failing),
                     FALSE)

\* for user in users: if user.get('display_name') == target: user_id = ...; break
FindUser(users, target) ==
    IF \E i \in DOMAIN users : Get(users[i].display_name, None) = target
    THEN users[CHOOSE i \in DOMAIN users :
                  /\ Get(users[i].display_name, None) = target
                  /\ \A j \in 1..(i - 1) :
                        Get(users[j].display_name, None) # target].user_id
    ELSE None

\* for roster in rosters: if roster.get('owner_id') == user_id: user_roster = roster
\* (no break: the last roster the user owns stays)
FindRoster(rosters, user_id) ==
    IF \E i \in DOMAIN rosters : rosters[i].owner_id = user_id
    THEN PyInt(CHOOSE i \in DOMAIN rosters :
                  /\ rosters[i].owner_id = user_id
                  /\ \A j \in (i + 1)..Len(rosters) :
                        rosters[j].owner_id # user_id)
    ELSE None

\* WaiverWireAnalyzer.load_league_data without the two checks: the loads run
\* whether or not the target user and their roster were found
WaiverWireAnalyzer_load_league_data_Unchecked(gw, target, failing) ==
    LET core == <<"get_league_info", "get_league_users",
                  "get_league_rosters", "get_all_players">>
        user_id == FindUser(gw.users, target)
    IN  IF Raises(core, failing)
        THEN Loading(CallsUntilRaise(core, failing), RequestException,
                     None, None, {}, FALSE)
        ELSE Loading(core \o ValueLoads(gw.draft_id, failing), NoError,
                     user_id, FindRoster(gw.rosters, user_id),
                     {"players_db"} \cup LoadedWith(gw.draft_id, failing),
                     TRUE)

\* WaiverWireAnalyzer.load_league_data: league info, users, the target user
\* (ValueError when not found), rosters, the user's roster (ValueError when
\* not found), the player database, the value analyzer's loads, the filter
WaiverWireAnalyzer_load_league_data(gw, target, failing) ==
    LET user_id == FindUser(gw.users, target)
        user_roster == FindRoster(gw.rosters, user_id)
        head == <<"get_league_info", "get_league_users">>
    IN  IF Raises(head, failing)
        THEN Loading(CallsUntilRaise(head, failing), RequestException,
                     None, None, {}, FALSE)
        ELSE IF ~Truthy(user_id)
        THEN Loading(head, ValueError, user_id, None, {}, FALSE)
        ELSE IF "get_league_rosters" \in failing
        THEN Loading(head \o <<"get_league_rosters">>, RequestException,
                     user_id, None, {}, FALSE)
        ELSE IF ~Truthy(user_roster)
        THEN Loading(head \o <<"get_league_rosters">>, ValueError,
                     user_id, None, {}, FALSE)
        ELSE IF "get_all_players" \in failing
        THEN Loading(head \o <<"get_league_rosters", "get_all_players">>,
                     RequestException, user_id, user_roster, {}, FALSE)
        ELSE Loading(head \o <<"get_league_rosters", "get_all_players">>
                          \o ValueLoads(gw.draft_id, failing),
                     NoError, user_id, user_roster,
                     {"players_db"} \cup LoadedWith(gw.draft_id, failing),
                     TRUE)

\* main(): the analysis follows the loading step; an error of the loading
\* step reaches main's handlers, which print it, and the run ends there
Run(analyzer, failing, loading) ==
    [analyzer |-> analyzer, failing |-> failing, loading |-> loading,
     analysis |-> loading.error = NoError]

InitLeague ==
    /\ gateway \in [users : LeagueUsers, rosters : LeagueRosters,
                    draft_id : DraftIds]
    /\ display_name \in DisplayNames
    /\ run = NoRun
    /\ ValueIdle
    /\ RefreshIdle
    /\ StatsIdle

\* sleeper_trade_analyzer.main(): LeagueAnalyzer(LEAGUE_ID).analyze_league(),
\* once per process
LeagueMain ==
    /\ run = NoRun
    /\ \E failing \in SUBSET GatewayCalls :
          run' = Run("league", failing,
                     LeagueAnalyzer_load_league_data(gateway, failing))
    /\ UNCHANGED <<gateway, display_name, valueVars, refreshVars, statsVars>>

\* waiver_wire_analyzer.main(): WaiverWireAnalyzer(league_id).analyze_waiver_wire(),
\* once per process
WaiverMain ==
    /\ run = NoRun
    /\ \E failing \in SUBSET GatewayCalls :
          run' = Run("waiver", failing,
                     WaiverWireAnalyzer_load_league_data(gateway, display_name,
                                                         failing))
    /\ UNCHANGED <<gateway, display_name, valueVars, refreshVars, statsVars>>

NextLeague == LeagueMain \/ WaiverMain

SpecLeague == InitLeague /\ [][NextLeague]_vars

----------------------------------------------------------------------------
(* Analysis runs: transport errors while loading league data *)

LeagueRun == run.analyzer = "league"
WaiverRun == run.analyzer = "waiver"

\* C16: a transport error raised by a gateway call made while loading league
\* data is caught and treated as no data for that call: the loading step of
\* LeagueAnalyzer raises no error to its caller and the analysis run is not
\* aborted, whichever calls fail.
C16_TransportErrorsCaught ==
    LeagueRun => run.loading.error = NoError /\ run.analysis

----------------------------------------------------------------------------
(* Analysis runs: the waiver analysis without its target user *)

\* the configured display name is the display name of a league user
TargetAmongUsers ==
    \E i \in DOMAIN gateway.users :
        Get(gateway.users[i].display_name, None) = display_name

\* a league user with the configured display name owns a roster
TargetHasRoster ==
    \E i \in DOMAIN gateway.users : \E j \in DOMAIN gateway.rosters :
        /\ Get(gateway.users[i].display_name, None) = display_name
        /\ gateway.rosters[j].owner_id = gateway.users[i].user_id

LoadCalls ==
    {"get_all_players", "get_trending_players", "get_draft_picks",
     "get_league_scoring_settings", "get_league_matchups"}

MadeCalls == {run.loading.calls[i] : i \in DOMAIN run.loading.calls}

\* C17: when the configured target user is not among the league's users, or
\* owns no roster, WaiverWireAnalyzer.load_league_data raises to its caller
\* (a ValueError when the fetches before the check succeeded) before any
\* fetch of the player database, trending, draft picks, scoring settings or
\* matchups, no load ends with data, no available player is computed and the
\* run produces no analysis.
C17_MissingUserAborts ==
    (WaiverRun /\ (~TargetAmongUsers \/ ~TargetHasRoster)) =>
        /\ run.loading.error # NoError
        /\ (MadeCalls \cap run.failing = {}) => run.loading.error = ValueError
        /\ MadeCalls \cap LoadCalls = {}
        /\ run.loading.loaded = {}
        /\ ~run.loading.available_players
        /\ ~run.analysis

\* the target user is a league user, the three fetches before the roster
\* check succeed, and no roster is theirs
C17_Witness ==
    /\ WaiverRun
    /\ TargetAmongUsers
    /\ ~TargetHasRoster
    /\ gateway.rosters # <<>>
    /\ run.loading.calls = <<"get_league_info", "get_league_users",
                             "get_league_rosters">>
    /\ run.loading.error = ValueError
    /\ run.loading.user_id = PyId("u1")

----------------------------------------------------------------------------
(* Identity Resolver: the range of match scores *)

\* C18: every entry that fuzzy_match_players puts in 'matches' has a match
\* score between 0 and 1 (scores are stored in thousandths: 0..1000).
C18_MatchScoreInUnitRange ==
    Matched =>
        \A name \in DOMAIN MatchedSet.matches :
            /\ MatchedSet.matches[name].match_score >= 0
            /\ MatchedSet.matches[name].match_score <= 1000

----------------------------------------------------------------------------
(* Identity Resolver: the chosen candidate and its confidence tier *)

\* the candidate is of the player's position and no candidate of that
\* position has a greater total score
IsBestFor(pl, candidate) ==
    /\ candidate.position = StrOf(pl.data.position)
    /\ \A c \in 1..Len(MatchedCandidates) :
          MatchedCandidates[c].position = StrOf(pl.data.position)
              => ~Gt(ScoreAgainst(pl, MatchedCandidates[c]),
                     ScoreAgainst(pl, candidate))

\* the tier is the one the total score falls in
TierMatches(confidence, total_score) ==
    /\ confidence \in {"high", "medium", "low"}
    /\ confidence = "high" <=> Gt(total_score, Rat(85, 100))
    /\ confidence = "medium" <=> /\ Gt(total_score, Rat(7, 10))
                                 /\ ~Gt(total_score, Rat(85, 100))
    /\ confidence = "low" <=> /\ Gt(total_score, Rat(6, 10))
                              /\ ~Gt(total_score, Rat(7, 10))

----------------------------------------------------------------------------
(* Valuation engine: the draft tier *)

\* the scored player has a draft record, with a numeric round
ScoredHasRecord == score.player_id \in DOMAIN draft_data
ScoredRound == draft_data[score.player_id].round

\* C20: the tier get_draft_tier gives the scored player is 1 when the player
\* has a draft record with round <= 3, 2 when the round is in 4..6, and 3 when
\* the round is >= 7 or the player has no draft record, whatever the record's
\* pick number.
C20_TierFromRound ==
    Scored =>
        /\ ~ScoredHasRecord => ScoredTier = 3
        /\ (ScoredHasRecord /\ IsNum(ScoredRound)) =>
              /\ ScoredRound.i <= 3 => ScoredTier = 1
              /\ ScoredRound.i \in 4..6 => ScoredTier = 2
              /\ ScoredRound.i >= 7 => ScoredTier = 3

\* a player drafted in round 7, the first round of tier 3, is scored
C20_Witness ==
    /\ Scored
    /\ ScoredHasRecord
    /\ IsNum(ScoredRound)
    /\ ScoredRound.i = 7
    /\ ScoredTier = 3
    /\ ~score.raised

----------------------------------------------------------------------------
(* Valuation engine: the contributions to the score *)

\* the signals of the scored player, as calculate_player_value_score reads them
ScoredSearchRank == Get(ScoredInfo.search_rank, PyInt(9999))
ScoredDepth == Get(ScoredInfo.depth_chart_position, PyInt(99))
ScoredPosition == Get(ScoredInfo.position, PyStr(PosUnknown))

\* the contributions that depend on neither search rank, depth slot nor
\* trending score
ScoredRest ==
    InjuryPenalty(Get(ScoredInfo.injury_status, PyStr(<<>>)))
    + PerformanceModifier(HasTracker, positional_rankings, adp_cache,
                          score.player_id, ScoredInfo, ScoredDraft,
                          ScoredPosition, ScoredTier)
    + PositionBonus(ScoredPosition, ScoredTier)

\* the returned score for a given base score, depth bonus and trending bonus
ScoreWith(base, depth, trending) ==
    ApplyTierBounds(ScoredTier,
                    base + depth + trending
                    + DraftBonus(ScoredDraft, ScoredTier, base) + ScoredRest)

ScoredBase == BaseScore(ScoredSearchRank.i, ScoredTier)
ScoredDepthBonus == DepthBonus(ScoredDepth, ScoredTier)
ScoredTrendingBonus == TrendingBonus(ScoredTrending, ScoredTier)

\* C21: the base-score contribution is 0 for the unranked sentinel 9999 (also
\* read for an absent search rank) in every tier; for any other rank it is
\* max(0, 1000 - searchRank) / 12.5 times the tier multiplier 1.3, 1.0 or 0.7:
\* the returned score is the one that base score gives.
C21_BaseScore ==
    (Scored /\ ~score.raised) =>
        LET rank == ScoredSearchRank.i
            multiplier == CASE ScoredTier = 1 -> 13 [] ScoredTier = 2 -> 10
                            [] ScoredTier = 3 -> 7
            distance == IF 1000 - rank > 0 THEN 1000 - rank ELSE 0
            base == IF rank = 9999 THEN 0
                    ELSE (distance * 2 * SCALE * multiplier) \div (25 * 10)
        IN /\ (rank = 9999 \/ ScoredInfo.search_rank = Absent) => base = 0
           /\ ScoredBase = base
           /\ score.value = ScoreWith(base, ScoredDepthBonus, ScoredTrendingBonus)

\* a Tier 3 player with search rank 700: base score 300 / 12.5 x 0.7 = 16.8
C21_Witness ==
    /\ Scored /\ ~score.raised
    /\ ScoredTier = 3
    /\ ScoredSearchRank.i = 700
    /\ ScoredBase = (168 * SCALE) \div 10
    /\ score.value = ScoreWith((168 * SCALE) \div 10, ScoredDepthBonus,
                               ScoredTrendingBonus)

----------------------------------------------------------------------------
(* Valuation engine: the trending bonus *)

\* clamp(trendingScore / 5, -20, +20) x tier multiplier, the clamp first
ClampedTrending(trending_score, tier) ==
    LET fifth == trending_score * (SCALE \div 5)
        clamped == IF fifth > 20 * SCALE THEN 20 * SCALE
                   ELSE IF fifth < -20 * SCALE THEN -20 * SCALE
                   ELSE fifth
        multiplier == CASE tier = 1 -> 13 [] tier = 2 -> 11 [] tier = 3 -> 9
    IN (clamped * multiplier) \div 10

\* C22: within a tier the trending bonus equals clamp(trendingScore / 5, -20,
\* +20) x tier multiplier 1.3, 1.1 or 0.9, the clamp applied before the
\* scaling; it is non-decreasing in the trending score, and constant for
\* trending scores >= 100 and for trending scores <= -100.
C22_TrendingBonus ==
    (Scored /\ ~score.raised) =>
        /\ ScoredTrendingBonus = ClampedTrending(ScoredTrending, ScoredTier)
        /\ score.value = ScoreWith(ScoredBase, ScoredDepthBonus,
                                   ClampedTrending(ScoredTrending, ScoredTier))
        /\ \A t \in (-MaxTrending)..(MaxTrending - 1) :
              TrendingBonus(t, ScoredTier) <= TrendingBonus(t + 1, ScoredTier)
        /\ \A t \in 100..MaxTrending :
              /\ TrendingBonus(t, ScoredTier) = TrendingBonus(100, ScoredTier)
              /\ TrendingBonus(-t, ScoredTier) = TrendingBonus(-100, ScoredTier)

\* a Tier 1 player with trending score 150: the bonus is 20 x 1.3 = 26
C22_Witness ==
    /\ Scored /\ ~score.raised
    /\ ScoredTier = 1
    /\ ScoredTrending = 150
    /\ ScoredTrendingBonus = 26 * SCALE

----------------------------------------------------------------------------
(* Valuation engine: the Tier 2 floor and soft cap *)

SumSteps == {1, SCALE \div 10, SCALE, 10 * SCALE, 40 * SCALE}

\* C23: for a Tier 2 player the final score is at least 65, equals the sum of
\* contributions when the sum is in [65, 95], and equals 95 + (sum - 95) x 0.3
\* when the sum exceeds 95; the final score does not decrease when the sum
\* grows.
C23_Tier2SoftCap ==
    (Scored /\ ~score.raised /\ ScoredTier = 2) =>
        /\ score.value >= 65 * SCALE
        /\ (ScoredTotal >= 65 * SCALE /\ ScoredTotal <= 95 * SCALE)
              => score.value = ScoredTotal
        /\ ScoredTotal > 95 * SCALE
              => 10 * (score.value - 95 * SCALE) = 3 * (ScoredTotal - 95 * SCALE)
        /\ ScoredTotal < 65 * SCALE => score.value = 65 * SCALE
        /\ \A step \in SumSteps :
              /\ ApplyTierBounds(2, ScoredTotal) <= ApplyTierBounds(2, ScoredTotal + step)
              /\ ApplyTierBounds(2, ScoredTotal - step) <= ApplyTierBounds(2, ScoredTotal)

\* a Tier 2 player whose contributions sum to more than 95
C23_Witness ==
    /\ Scored /\ ~score.raised /\ ScoredTier = 2
    /\ ScoredTotal > 95 * SCALE
    /\ score.value > 95 * SCALE
    /\ score.value < ScoredTotal

----------------------------------------------------------------------------
(* Valuation engine: the depth-chart bonus *)

\* C24: the depth-chart bonus is non-zero only for the depth slots 1, 2 and 3
\* (20, 10 and 5, times the tier multiplier 1.5, 1.2 or 1.0); for every other
\* depth value (0, negative, above 3, the sentinel 99, non-numeric) it is 0:
\* the returned score is the one that bonus gives.
C24_DepthBonusOnlySlots ==
    (Scored /\ ~score.raised) =>
        LET multiplier == CASE ScoredTier = 1 -> 15 [] ScoredTier = 2 -> 12
                            [] ScoredTier = 3 -> 10
            slot == IF IsNum(ScoredDepth) THEN ScoredDepth.i ELSE 99
            bonus == CASE slot = 1 -> 20 * SCALE [] slot = 2 -> 10 * SCALE
                       [] slot = 3 -> 5 * SCALE [] OTHER -> 0
        IN /\ ScoredDepthBonus = (bonus * multiplier) \div 10
           /\ score.value = ScoreWith(ScoredBase, (bonus * multiplier) \div 10,
                                      ScoredTrendingBonus)

----------------------------------------------------------------------------
(* ESPN statistics: ESPNStatsProvider._process_player_stats *)

PyFloat(n) == [t |-> "float", i |-> n]
PyList(items) == [t |-> "list", items |-> items]
PyDict(fields) == [t |-> "dict"] @@ fields

\* stat_mapping: the statistics kept, under their standardized names
stat_mapping ==
    ("rushingYards" :> "rush_yds") @@ ("receptions" :> "receptions")
    @@ ("passingTouchdowns" :> "pass_tds")

\* float(value) raises on None and on a string that is no number
FloatRaises(value) == value.t \notin {"int", "float"}

\* the loop of _extract_fantasy_relevant_stats over the stat entries (every
\* entry explored that is an object has a name)
RECURSIVE ExtractStats(_, _)
ExtractStats(stats, relevant_stats) ==
    IF stats = <<>> THEN [raised |-> FALSE, stats |-> relevant_stats]
    ELSE LET stat == Head(stats)
         IN IF stat.t # "dict" THEN [raised |-> TRUE, stats |-> relevant_stats]
            ELSE LET name == stat.name
                     value == Get(stat.value, PyInt(0))
                 IN IF name \notin DOMAIN stat_mapping
                    THEN ExtractStats(Tail(stats), relevant_stats)
                    ELSE IF FloatRaises(value)
                    THEN [raised |-> TRUE, stats |-> relevant_stats]
                    ELSE ExtractStats(Tail(stats),
                           [k \in DOMAIN relevant_stats \cup {stat_mapping[name]} |->
                              IF k = stat_mapping[name] THEN PyFloat(value.i)
                              ELSE relevant_stats[k]])

\* _extract_fantasy_relevant_stats: {} for a missing or empty list
_extract_fantasy_relevant_stats(stats_list) ==
    IF stats_list.t # "list" \/ stats_list.items = <<>>
    THEN [raised |-> FALSE, stats |-> EmptyDict]
    ELSE ExtractStats(stats_list.items, EmptyDict)

\* game.get('opponent', {}).get('abbreviation', ''): raises when 'opponent'
\* is present and no dict
OpponentRaises(game) == game.opponent.t \notin {"absent", "dict"}
OpponentOf(game) ==
    IF game.opponent.t = "absent" THEN "" ELSE game.opponent.abbreviation

\* the loop over season_data['games']: games without 'stats' are passed over
RECURSIVE GameLogs(_, _)
GameLogs(games, game_logs) ==
    IF games = <<>> THEN [raised |-> FALSE, game_logs |-> game_logs]
    ELSE LET game == Head(games)
         IN IF game.stats.t = "absent" THEN GameLogs(Tail(games), game_logs)
            ELSE LET game_stats == _extract_fantasy_relevant_stats(game.stats)
                 IN IF game_stats.raised \/ OpponentRaises(game)
                    THEN [raised |-> TRUE, game_logs |-> game_logs]
                    ELSE GameLogs(Tail(games),
                           Append(game_logs,
                                  [week |-> Get(game.number, PyInt(0)),
                                   stats |-> game_stats.stats,
                                   opponent |-> OpponentOf(game),
                                   result |-> ""]))

\* fantasy points of a game log, in fiftieths of a point
FantasyPoints(stats) ==
    (IF "pass_tds" \in DOMAIN stats THEN 300 * stats["pass_tds"].i ELSE 0)
    + (IF "rush_yds" \in DOMAIN stats THEN 5 * stats["rush_yds"].i ELSE 0)
    + (IF "receptions" \in DOMAIN stats THEN 25 * stats["receptions"].i ELSE 0)

RECURSIVE SumFantasyPoints(_)
SumFantasyPoints(game_logs) ==
    IF game_logs = <<>> THEN 0
    ELSE FantasyPoints(Head(game_logs).stats) + SumFantasyPoints(Tail(game_logs))

\* _calculate_performance_metrics for fewer than four games: the last-4
\* average is the season average and no consistency metrics are computed
_calculate_performance_metrics(game_logs) ==
    [last_4_avg |-> Rat(SumFantasyPoints(game_logs), Len(game_logs)),
     season_avg |-> Rat(SumFantasyPoints(game_logs), Len(game_logs)),
     trend |-> 0]

NewProcessed(season) ==
    [t |-> "dict", season |-> season, career_totals |-> EmptyDict,
     season_totals |-> EmptyDict, game_logs |-> <<>>,
     recent_performance |-> EmptyDict, consistency_metrics |-> EmptyDict]

\* the part of _process_player_stats for one season of the requested year:
\* the totals, then the games; game_logs is assigned after the last game
ProcessSeason(season_data, acc) ==
    LET totals == IF season_data.totals.t = "absent"
                  THEN [raised |-> FALSE, stats |-> acc.season_totals]
                  ELSE _extract_fantasy_relevant_stats(season_data.totals)
    IN  IF totals.raised THEN [raised |-> TRUE, processed |-> acc]
        ELSE LET with_totals == [acc EXCEPT !.season_totals = totals.stats]
             IN IF season_data.games.t = "absent"
                THEN [raised |-> FALSE, processed |-> with_totals]
                ELSE LET logs == GameLogs(season_data.games.items, <<>>)
                     IN IF logs.raised
                        THEN [raised |-> TRUE, processed |-> with_totals]
                        ELSE [raised |-> FALSE,
                              processed |-> [with_totals EXCEPT
                                                !.game_logs = logs.game_logs]]

RECURSIVE ProcessSeasons(_, _, _)
ProcessSeasons(seasons, season, acc) ==
    IF seasons = <<>> THEN [raised |-> FALSE, processed |-> acc]
    ELSE IF Head(seasons).year # season
         THEN ProcessSeasons(Tail(seasons), season, acc)
         ELSE LET one == ProcessSeason(Head(seasons), acc)
              IN IF one.raised THEN one
                 ELSE ProcessSeasons(Tail(seasons), season, one.processed)

\* _process_player_stats: one try around the career totals, the seasons and
\* the metrics; an exception ends the processing and what was assigned so far
\* is returned
_process_player_stats(data, season) ==
    IF data.t # "dict" THEN EmptyDict
    ELSE LET career == IF data.career.t = "absent"
                       THEN [raised |-> FALSE, stats |-> EmptyDict]
                       ELSE _extract_fantasy_relevant_stats(data.career)
         IN IF career.raised THEN NewProcessed(season)
            ELSE LET start == [NewProcessed(season) EXCEPT
                                  !.career_totals = career.stats]
                     seasons == ProcessSeasons(data.seasons, season, start)
                 IN IF seasons.raised \/ seasons.processed.game_logs = <<>>
                    THEN seasons.processed
                    ELSE [seasons.processed EXCEPT !.recent_performance =
                             _calculate_performance_metrics(
                                 seasons.processed.game_logs)]

\* the responses explored hold at most MaxGames games per season (fewer than
\* four, the number from which consistency metrics are computed)
MaxGames == 2

Stat(name, value) == PyDict([name |-> name, value |-> value])
RushingGame == PyList(<<Stat("rushingYards", PyInt(100))>>)
ReceivingGame ==
    PyList(<<Stat("receptions", PyInt(4)), Stat("gamesPlayed", PyStr(<<"-">>))>>)
Game(number, stats, opponent) ==
    [number |-> PyInt(number), stats |-> stats, opponent |-> opponent]
Opponent(abbreviation) == PyDict([abbreviation |-> abbreviation])

\* game entries: two sound ones, one without 'stats', and three malformed: a
\* statistic whose value is no number, a statistic that is no object, an
\* opponent that is null
GameEntries ==
    {Game(1, RushingGame, Opponent("KC")),
     Game(2, ReceivingGame, Absent),
     Game(3, Absent, Opponent("KC")),
     Game(4, PyList(<<Stat("rushingYards", PyStr(<<"n","a">>))>>), Opponent("KC")),
     Game(5, PyList(<<PyStr(<<"x">>)>>), Absent),
     Game(6, RushingGame, None)}

TotalsEntries ==
    {Absent, PyList(<<Stat("rushingYards", PyInt(900)), Stat("passingTouchdowns", PyInt(2))>>),
     PyList(<<Stat("receptions", None)>>)}

Season(year, totals, games) == [year |-> year, totals |-> totals, games |-> games]

SeasonEntries ==
    {Season(year, totals, games) :
        year \in {"2023", "2024"}, totals \in TotalsEntries,
        games \in {Absent} \cup {PyList(g) : g \in UNION {[1..n -> GameEntries] :
                                                            n \in 0..MaxGames}}}

StatsResponses ==
    {None}
    \cup {PyDict([career |-> career, seasons |-> <<season_data>>]) :
             career \in {Absent, PyList(<<Stat("receptions", PyInt(300))>>)},
             season_data \in SeasonEntries}

InitStats ==
    /\ StatsIdle
    /\ ValueIdle
    /\ RefreshIdle
    /\ LeagueIdle

\* _process_player_stats(stats_data, "2024") on a response of the stats endpoint
ProcessPlayerStats ==
    /\ \E data \in StatsResponses :
          /\ stats_data' = data
          /\ processed' = _process_player_stats(data, "2024")
    /\ UNCHANGED <<valueVars, refreshVars, leagueVars>>

NextStats == ProcessPlayerStats

SpecStats == InitStats /\ [][NextStats]_vars

----------------------------------------------------------------------------
(* ESPN statistics: malformed records *)

\* a game entry with statistics whose extraction raises nothing
SoundGame(game) ==
    /\ game.stats.t # "absent"
    /\ ~_extract_fantasy_relevant_stats(game.stats).raised
    /\ ~OpponentRaises(game)

SoundTotals(season_data) ==
    /\ season_data.totals.t # "absent"
    /\ ~_extract_fantasy_relevant_stats(season_data.totals).raised

Logged(game) ==
    \E k \in DOMAIN processed.game_logs : processed.game_logs[k].week = game.number

\* C25: a malformed record of a statistics response is skipped on its own: the
\* sound game entries of the requested season are all in the returned game
\* logs and its sound totals are the returned season totals, whatever other
\* records of the response are malformed.
C25_MalformedRecordSkipped ==
    stats_data.t = "dict" =>
        \A n \in DOMAIN stats_data.seasons :
            LET season_data == stats_data.seasons[n]
            IN season_data.year = "2024" =>
                  /\ SoundTotals(season_data) =>
                        processed.season_totals
                            = _extract_fantasy_relevant_stats(season_data.totals).stats
                  /\ season_data.games.t = "list" =>
                        \A g \in DOMAIN season_data.games.items :
                            SoundGame(season_data.games.items[g])
                                => Logged(season_data.games.items[g])

----------------------------------------------------------------------------
(* Identity Resolver: the cache file under an interrupted save *)

Interrupted == last.op = "interrupted"

\* C26: the cache file is written atomically: after a refresh that is
\* interrupted inside _save_cache the cache file is either the complete file
\* it was before or the complete new cache document, never an empty or
\* partly written one.
C26_AtomicCacheWrite ==
    Interrupted =>
        \/ files[cache_file] = last.previous
        \/ files[cache_file] = [t |-> "json", doc |-> last.document]

----------------------------------------------------------------------------
(* Valuation engine: the trending cache after load_trending_data *)

\* One analyzer on which only load_trending_data is called, with feeds of two
\* players and every call recorded
Feed(count1, count2) ==
    (IF count1 = 0 THEN <<>> ELSE <<[player_id |-> "p1", count |-> count1]>>)
    \o (IF count2 = 0 THEN <<>> ELSE <<[player_id |-> "p2", count |-> count2]>>)

TrendingFeeds ==
    {Fail} \cup {[t |-> "ok", adds |-> Feed(a1, a2), drops |-> Feed(d1, d2)] :
                    a1 \in {0, 40}, a2 \in {0, 100}, d1 \in {0, 60}, d2 \in {0, 70}}

InitTrending ==
    /\ ValueIdle
    /\ RefreshIdle
    /\ LeagueIdle
    /\ StatsIdle

NextTrending == LoadTrendingData(TrendingFeeds, TRUE)

SpecTrending == InitTrending /\ [][NextTrending]_vars

\* the count of a player in a feed, 0 if the player is not in it
RECURSIVE FeedCount(_, _)
FeedCount(feed, id) ==
    IF feed = <<>> THEN 0
    ELSE IF Head(feed).player_id = id THEN Head(feed).count
    ELSE FeedCount(Tail(feed), id)

TrendingScoreOf(id) == IF id \in DOMAIN trending_cache THEN trending_cache[id] ELSE 0

LoadedTrending == last.op = "load_trending"

\* C27: after load_trending_data every player's trending score is the
\* player's count in the add feed (0 if absent) minus the count in the drop
\* feed (0 if absent), also when the same feeds have been loaded more than
\* once on the analyzer; a load whose fetch fails leaves the trending cache
\* as it was.
C27_TrendingIsAddsMinusDrops ==
    LoadedTrending =>
        /\ last.fetch.t = "raise" => trending_cache = last.before
        /\ last.fetch.t = "ok" /\ last.feeds = last.fetch =>
              \A id \in PlayerIds :
                  TrendingScoreOf(id) = FeedCount(last.fetch.adds, id)
                                          - FeedCount(last.fetch.drops, id)

----------------------------------------------------------------------------
(* Sleeper gateway: SleeperAPI.get_all_players on one instance *)

\* get_all_players always fetches
get_all_players_AlwaysFetch(pc, response) ==
    IF response.t = "raise" \/ response.json = None
    THEN [players_cache |-> pc, requested |-> TRUE, raised |-> TRUE, returned |-> None]
    ELSE [players_cache |-> response.json, requested |-> TRUE, raised |-> FALSE,
          returned |-> response.json]

\* get_all_players(): a request is made only while self.players_cache is None.
\* raise_for_status() raises before the attribute is assigned; a JSON null
\* body is assigned (the attribute stays None) and len(None) raises.
get_all_players(pc, response) ==
    IF pc # None
    THEN [players_cache |-> pc, requested |-> FALSE, raised |-> FALSE, returned |-> pc]
    ELSE IF response.t = "raise" \/ response.json = None
    THEN [players_cache |-> None, requested |-> TRUE, raised |-> TRUE, returned |-> None]
    ELSE [players_cache |-> response.json, requested |-> TRUE, raised |-> FALSE,
          returned |-> response.json]

\* what the gateway answers to GET /players/nfl while its database is db
PlayersResponses(db) ==
    {Fail, [t |-> "ok", json |-> None],
     [t |-> "ok", json |-> [t |-> "dict", pool |-> db]]}

\* the databases the gateway serves over a run
Databases == {pool \in Pools : Len(pool) <= 1}

\* get_all_players is called at most MaxCalls times in a run
MaxCalls == 4

InitApi ==
    /\ ValueIdle
    /\ LeagueIdle
    /\ StatsIdle
    /\ files = EmptyDict
    /\ refresher = "none"
    /\ core_mappings = EmptyDict
    /\ cache = EmptyDict
    /\ sleeper_players \in Databases
    /\ players_cache = None
    /\ last = [op |-> "none", calls |-> 0, requests |-> 0, succeeded |-> FALSE,
               snapshot |-> None]

\* SleeperAPI().get_all_players(); last counts the calls and the requests and
\* keeps what the first successful call returned
GetAllPlayers ==
    /\ last.calls < MaxCalls
    /\ \E response \in PlayersResponses(sleeper_players) :
          LET r == get_all_players(players_cache, response)
          IN /\ players_cache' = r.players_cache
             /\ last' = [op |-> "get_all_players",
                         calls |-> last.calls + 1,
                         requests |-> last.requests + (IF r.requested THEN 1 ELSE 0),
                         requested |-> r.requested,
                         raised |-> r.raised,
                         returned |-> r.returned,
                         had_succeeded |-> last.succeeded,
                         succeeded |-> last.succeeded \/ ~r.raised,
                         snapshot |-> IF last.succeeded THEN last.snapshot
                                      ELSE IF r.raised THEN None ELSE r.returned]
    /\ UNCHANGED <<files, refresher, core_mappings, cache, sleeper_players,
                   valueVars, leagueVars, statsVars>>

\* the player database behind the gateway changes
DatabaseChanges ==
    /\ sleeper_players' \in Databases \ {sleeper_players}
    /\ UNCHANGED <<files, refresher, core_mappings, cache, players_cache, last,
                   valueVars, leagueVars, statsVars>>

NextApi == GetAllPlayers \/ DatabaseChanges

SpecApi == InitApi /\ [][NextApi]_vars

\* C28: on one SleeperAPI instance, once a get_all_players call has succeeded
\* the instance keeps the snapshot that call returned for the rest of the
\* run, and every later call returns that snapshot without a request.
C28_PlayersFetchedOnce ==
    /\ last.succeeded => players_cache = last.snapshot
    /\ last.op = "get_all_players" /\ last.had_succeeded =>
          /\ ~last.requested
          /\ ~last.raised
          /\ last.returned = last.snapshot

\* a third or later call answered from the snapshot after the gateway's
\* database has changed and after an earlier request had failed
C28_Witness ==
    /\ last.op = "get_all_players"
    /\ last.had_succeeded
    /\ last.calls >= 3
    /\ last.requests = 2
    /\ last.returned # None
    /\ last.returned.pool # sleeper_players

----------------------------------------------------------------------------
(* Identity Resolver: every live player accounted for once *)

\* the names in the 'unmatched' list of the match set
UnmatchedNames ==
    {MatchedSet.unmatched[u].name : u \in 1..Len(MatchedSet.unmatched)}

\* C29: fuzzy_match_players accounts for every live skill-position player
\* with a non-empty name and team exactly once: the name is a key of
\* 'matches' or a name in 'unmatched', and no key of 'matches' is a name in
\* 'unmatched', also when two live players share a name.
C29_AccountedOnce ==
    Matched =>
        /\ \A n \in 1..Len(MatchedSkill) :
              FullName(MatchedSkill[n].data) # <<>> /\ HasTeam(MatchedSkill[n])
                  => \/ FullName(MatchedSkill[n].data) \in DOMAIN MatchedSet.matches
                     \/ FullName(MatchedSkill[n].data) \in UnmatchedNames
        /\ DOMAIN MatchedSet.matches \cap UnmatchedNames = {}

----------------------------------------------------------------------------
(* Identity Resolver: a refresh repeated *)

\* this step is a refresh that returns, right after a refresh that returned,
\* run in the same mode (the live pool is the cached snapshot and the core
\* mapping is never changed, so both are the same in the two runs)
RefreshedAgain ==
    /\ Updated
    /\ ~last.raised
    /\ last'.op = "refresh"
    /\ "new_matches" \in DOMAIN last'
    /\ ~last'.raised
    /\ last'.full = last.full

\* C30: a refresh run twice in a row with the same live pool, core mapping
\* and mode reports empty 'added', 'updated' and 'removed' the second time,
\* and no name a refresh reports as 'removed' is in the cache that refresh
\* writes.
C30_RefreshIdempotent ==
    [][/\ RefreshedAgain =>
             /\ DOMAIN last'.diff_report.added = {}
             /\ DOMAIN last'.diff_report.updated = {}
             /\ DOMAIN last'.diff_report.removed = {}
       /\ (last'.op = "refresh" /\ "new_matches" \in DOMAIN last' /\ last'.saved) =>
             DOMAIN last'.diff_report.removed \cap DOMAIN PersistedMappings(files') = {}
      ]_vars

====
